---- MODULE Spec2Model ----
(***************************************************************************)
(* Model of the YT_Downloader route handlers:                              *)
(*   - extractVideoId  (info route and download route, identical copies)   *)
(*   - GET /info       (Rapid API, then oEmbed fallback, format sort)      *)
(*   - GET /download   (redirect to the mirror)                            *)
(* Strings are sequences of one-character strings, so that the regular     *)
(* expressions, split and parseInt are computed character by character.    *)
(***************************************************************************)
EXTENDS Integers, Sequences, FiniteSets, TLC

(***************************************************************************)
(* JavaScript values                                                       *)
(***************************************************************************)
Null == [t |-> "null"]
Undefined == [t |-> "undefined"]
NaN == [t |-> "NaN"]
Str(s) == [t |-> "string", s |-> s]
Num(n) == [t |-> "number", n |-> n]
Bool(b) == [t |-> "boolean", b |-> b]
Arr(a) == [t |-> "array", a |-> a]
Obj(fields) == [t |-> "object", f |-> fields]

\* JavaScript truthiness of the values used here (ToBoolean)
Truthy(v) ==
    CASE v.t = "null" -> FALSE
      [] v.t = "undefined" -> FALSE
      [] v.t = "NaN" -> FALSE
      [] v.t = "string" -> v.s # <<>>
      [] v.t = "number" -> v.n # 0
      [] v.t = "boolean" -> v.b
      [] OTHER -> TRUE

(***************************************************************************)
(* Characters                                                              *)
(***************************************************************************)
LowerOf ==
    [A |-> "a", B |-> "b", C |-> "c", D |-> "d", E |-> "e", F |-> "f",
     G |-> "g", H |-> "h", I |-> "i", J |-> "j", K |-> "k", L |-> "l",
     M |-> "m", N |-> "n", O |-> "o", P |-> "p", Q |-> "q", R |-> "r",
     S |-> "s", T |-> "t", U |-> "u", V |-> "v", W |-> "w", X |-> "x",
     Y |-> "y", Z |-> "z"]

UpperLetters == DOMAIN LowerOf
LowerLetters == {LowerOf[c] : c \in UpperLetters}
Digits == {"0", "1", "2", "3", "4", "5", "6", "7", "8", "9"}

\* the /i flag of the URL patterns
Fold(c) == IF c \in UpperLetters THEN LowerOf[c] ELSE c

\* \s of the patterns, and the line terminators that . does not match
WhiteSpace == {" ", "\t", "\n", "\r", "\f"}
LineTerminators == {"\n", "\r"}

\* [a-zA-Z0-9_-]
IdChar(c) == c \in UpperLetters \cup LowerLetters \cup Digits \cup {"_", "-"}

\* [^"&?\/\s]
CaptureChar(c) == c \notin ({"\"", "&", "?", "/"} \cup WhiteSpace)

\* .
DotChar(c) == c \notin LineTerminators

(***************************************************************************)
(* Literals of the patterns                                                *)
(***************************************************************************)
LitYoutubeCom ==
    <<"y", "o", "u", "t", "u", "b", "e", ".", "c", "o", "m", "/">>
LitYoutuBe ==
    <<"y", "o", "u", "t", "u", ".", "b", "e", "/">>
LitEmbed ==
    <<"e", "m", "b", "e", "d", "/">>
LitShorts ==
    <<"s", "h", "o", "r", "t", "s", "/">>
LitV ==
    <<"v", "/">>
LitE ==
    <<"e", "/">>
LitVEq ==
    <<"v", "=">>

IdLen == 11

(***************************************************************************)
(* Regular-expression matching                                             *)
(***************************************************************************)
\* the literal lit occurs in s at position i, compared case-insensitively
LitAt(s, i, lit) ==
    /\ i >= 1
    /\ i + Len(lit) - 1 <= Len(s)
    /\ \A k \in 1..Len(lit) : Fold(s[i + k - 1]) = Fold(lit[k])

\* ([^"&?\/\s]{11}) matches at position j
CaptureAt(s, j) ==
    /\ j >= 1
    /\ j + IdLen - 1 <= Len(s)
    /\ \A k \in j..(j + IdLen - 1) : CaptureChar(s[k])

Capture(s, j) == SubSeq(s, j, j + IdLen - 1)

Max(S) == CHOOSE m \in S : \A x \in S : x <= m
Min(S) == CHOOSE m \in S : \A x \in S : m <= x

\* [^\/]+\/.+\/ followed by the capture, tried from position b: the greedy
\* [^\/]+ stops at the first slash, the greedy .+ backtracks from the right,
\* so the last slash that is followed by a capture wins.  0 when no match.
SegmentsAlt(s, b) ==
    LET slashes == {p \in b..Len(s) : s[p] = "/"}
    IN  IF slashes = {} THEN 0
        ELSE LET k == Min(slashes)
                 ends == {m \in (k + 2)..Len(s) :
                            /\ s[m] = "/"
                            /\ \A q \in (k + 1)..(m - 1) : DotChar(s[q])
                            /\ CaptureAt(s, m + 1)}
             IN  IF k = b \/ ends = {} THEN 0 ELSE Max(ends) + 1

\* (?:v|e(?:mbed)?)\/ followed by the capture, tried from position b
EmbedAlt(s, b) ==
    IF LitAt(s, b, LitV) /\ CaptureAt(s, b + Len(LitV)) THEN b + Len(LitV)
    ELSE IF LitAt(s, b, LitEmbed) /\ CaptureAt(s, b + Len(LitEmbed))
         THEN b + Len(LitEmbed)
    ELSE IF LitAt(s, b, LitE) /\ CaptureAt(s, b + Len(LitE)) THEN b + Len(LitE)
    ELSE 0

\* .*[?&]v= followed by the capture, tried from position b: the greedy .*
\* backtracks from the right, so the last [?&]v= followed by a capture wins
QueryAlt(s, b) ==
    LET marks == {m \in b..Len(s) :
                    /\ s[m] \in {"?", "&"}
                    /\ LitAt(s, m + 1, LitVEq)
                    /\ \A q \in b..(m - 1) : DotChar(s[q])
                    /\ CaptureAt(s, m + 1 + Len(LitVEq))}
    IN  IF marks = {} THEN 0 ELSE Max(marks) + 1 + Len(LitVEq)

\* the first pattern tried at start position i: position of the capture, or 0
GeneralAt(s, i) ==
    IF LitAt(s, i, LitYoutubeCom)
    THEN LET b == i + Len(LitYoutubeCom)
         IN  IF SegmentsAlt(s, b) # 0 THEN SegmentsAlt(s, b)
             ELSE IF EmbedAlt(s, b) # 0 THEN EmbedAlt(s, b)
             ELSE QueryAlt(s, b)
    ELSE IF LitAt(s, i, LitYoutuBe) /\ CaptureAt(s, i + Len(LitYoutuBe))
         THEN i + Len(LitYoutuBe)
    ELSE 0

\* a pattern  literal([^"&?\/\s]{11})  tried at start position i
PrefixedAt(s, i, lit) ==
    IF LitAt(s, i, lit) /\ CaptureAt(s, i + Len(lit)) THEN i + Len(lit) ELSE 0

\* ^([a-zA-Z0-9_-]{11})$
BareAt(s, i) ==
    IF i = 1 /\ Len(s) = IdLen /\ \A k \in 1..Len(s) : IdChar(s[k])
    THEN 1 ELSE 0

NumPatterns == 6

\* the patterns array with the shorts rule lost
PatternAtNoShorts(k, s, i) ==
    CASE k = 1 -> GeneralAt(s, i)
      [] k = 2 -> PrefixedAt(s, i, LitYoutuBe)
      [] k = 3 -> PrefixedAt(s, i, LitYoutubeCom \o LitEmbed)
      [] k = 4 -> 0
      [] k = 5 -> PrefixedAt(s, i, LitYoutubeCom \o LitV)
      [] k = 6 -> BareAt(s, i)

\* pattern number k of the patterns array tried at start position i
PatternAt(k, s, i) ==
    CASE k = 1 -> GeneralAt(s, i)
      [] k = 2 -> PrefixedAt(s, i, LitYoutuBe)
      [] k = 3 -> PrefixedAt(s, i, LitYoutubeCom \o LitEmbed)
      [] k = 4 -> PrefixedAt(s, i, LitYoutubeCom \o LitShorts)
      [] k = 5 -> PrefixedAt(s, i, LitYoutubeCom \o LitV)
      [] k = 6 -> BareAt(s, i)

\* url.match(pattern): the match at the leftmost start position; the result
\* is match[1], or Null when the pattern does not match
Match(k, s) ==
    LET starts == {i \in 1..Len(s) : PatternAt(k, s, i) # 0}
    IN  IF starts = {} THEN Null
        ELSE Str(Capture(s, PatternAt(k, s, Min(starts))))

\* for (const pattern of patterns) { ... } starting at pattern k
RECURSIVE TryPatterns(_, _)
TryPatterns(k, s) ==
    IF k > NumPatterns THEN Null
    ELSE IF Truthy(Match(k, s)) THEN Match(k, s)
    ELSE TryPatterns(k + 1, s)

\* the loop run over the patterns from the last to the first
RECURSIVE TryPatternsDown(_, _)
TryPatternsDown(k, s) ==
    IF k < 1 THEN Null
    ELSE IF Truthy(Match(k, s)) THEN Match(k, s)
    ELSE TryPatternsDown(k - 1, s)

extractVideoIdLastFirst(s) == TryPatternsDown(NumPatterns, s)

extractVideoId(s) == TryPatterns(1, s)

(***************************************************************************)
(* Inputs of the extractor                                                 *)
(***************************************************************************)
Https ==
    <<"h", "t", "t", "p", "s", ":", "/", "/">>
Http ==
    <<"h", "t", "t", "p", ":", "/", "/">>
Www ==
    <<"w", "w", "w", ".">>
Mobile ==
    <<"m", ".">>
WatchPath ==
    <<"w", "a", "t", "c", "h", "?", "v", "=">>
TimeSuffix ==
    <<"&", "t", "=", "4", "2", "s">>
ShareSuffix ==
    <<"?", "s", "i", "=", "A", "b", "C">>
IdRick ==
    <<"d", "Q", "w", "4", "w", "9", "W", "g", "X", "c", "Q">>
IdDash ==
    <<"a", "-", "B", "_", "c", "-", "D", "_", "e", "-", "0">>
IdEmbed ==
    <<"e", "m", "b", "e", "d", "_", "v", "-", "e", "_", "1">>
IdOther ==
    <<"9", "b", "Z", "k", "p", "7", "q", "1", "9", "f", "0">>
NotAUrl ==
    <<"n", "o", "t", " ", "a", " ", "u", "r", "l">>
ExampleCom ==
    <<"h", "t", "t", "p", ":", "/", "/", "e", "x", "a", "m", "p", "l", "e", ".", "c", "o", "m">>
TenChars ==
    <<"d", "Q", "w", "4", "w", "9", "W", "g", "X", "c">>
TwelveChars ==
    <<"d", "Q", "w", "4", "w", "9", "W", "g", "X", "c", "Q", "Z">>
SpacedId ==
    <<" ", "d", "Q", "w", "4", "w", "9", "W", "g", "X", "c", "Q">>
DottedTail ==
    <<"a", "b", "c", ".", "d", "e", "f", "!", "g", "h", "i">>
PlusEqTail ==
    <<"a", "b", "c", "=", "d", "e", "f", "+", "g", "h", "i">>
UserPlaylists ==
    <<"h", "t", "t", "p", "s", ":", "/", "/", "w", "w", "w", ".", "y", "o", "u", "t", "u", "b", "e", ".", "c", "o", "m", "/", "u", "s", "e", "r", "/", "f", "o", "o", "/", "p", "l", "a", "y", "l", "i", "s", "t", "s", "1", "2", "3">>
LineBreakUrl ==
    <<"h", "t", "t", "p", "s", ":", "/", "/", "y", "o", "u", "t", "u", "b", "e", ".", "c", "o", "m", "/", "a", "\n", "b", "/", "c", "/", "d", "Q", "w", "4", "w", "9", "W", "g", "X", "c", "Q">>

ValidIds == {IdRick, IdDash, IdEmbed}

\* scheme and host prefix in front of youtube.com / youtu.be
Prefixes == {<<>>, Https, Https \o Www, Http \o Mobile}

FormNames == {"watch", "short", "embed", "shorts", "v", "bare"}

\* the six input forms of an identifier
Form(name, prefix, id, suffix) ==
    CASE name = "watch" -> prefix \o LitYoutubeCom \o WatchPath \o id \o suffix
      [] name = "short" -> prefix \o LitYoutuBe \o id \o suffix
      [] name = "embed" -> prefix \o LitYoutubeCom \o LitEmbed \o id \o suffix
      [] name = "shorts" -> prefix \o LitYoutubeCom \o LitShorts \o id \o suffix
      [] name = "v" -> prefix \o LitYoutubeCom \o LitV \o id \o suffix
      [] name = "bare" -> id

\* query parameters that follow the identifier in a pasted link
Suffixes(name) ==
    CASE name = "watch" -> {<<>>, TimeSuffix}
      [] name = "bare" -> {<<>>}
      [] OTHER -> {<<>>, ShareSuffix}

\* inputs built from a recognized form, with the identifier they embed
FormInputs ==
    {[s |-> Form(name, prefix, id, suffix), id |-> Str(id), form |-> name] :
        <<name, prefix, id, suffix>> \in
            {q \in FormNames \X Prefixes \X ValidIds \X {<<>>, TimeSuffix, ShareSuffix} :
                /\ q[4] \in Suffixes(q[1])
                /\ (q[1] = "bare" => q[2] = <<>>)}}

\* an input in which the first rule and the embed rule capture differently
TwoCandidates ==
    LitYoutuBe \o IdRick \o <<" ">> \o LitYoutubeCom \o LitEmbed \o IdOther

OtherStrings ==
    {<<>>, NotAUrl, ExampleCom, TenChars, TwelveChars, SpacedId,
     Https \o LitYoutuBe \o DottedTail,
     Https \o LitYoutuBe \o TwelveChars,
     Https \o Www \o LitYoutubeCom \o WatchPath \o PlusEqTail,
     Https \o Www \o LitYoutubeCom \o WatchPath \o TenChars,
     Https \o Www \o LitYoutubeCom \o LitShorts \o TenChars,
     UserPlaylists, LineBreakUrl, TwoCandidates}

OtherInputs == {[s |-> x, id |-> Null, form |-> "none"] : x \in OtherStrings}

Inputs == FormInputs \cup OtherInputs

(***************************************************************************)
(* String literals of the handlers and of the provider payloads            *)
(***************************************************************************)
Label720p60 ==
    <<"7", "2", "0", "p", "6", "0">>
Label480p ==
    <<"4", "8", "0", "p">>
LabelHd ==
    <<"h", "d">>
Label360p ==
    <<"3", "6", "0", "p">>
LabelAudioOnly ==
    <<"A", "u", "d", "i", "o", " ", "O", "n", "l", "y">>
MimeVideoMp4 ==
    <<"v", "i", "d", "e", "o", "/", "m", "p", "4">>
MimeAudioMp4 ==
    <<"a", "u", "d", "i", "o", "/", "m", "p", "4">>
MimeAudioWebmOpus ==
    <<"a", "u", "d", "i", "o", "/", "w", "e", "b", "m", ";", " ", "c", "o", "d", "e", "c", "s", "=", "\"", "o", "p", "u", "s", "\"">>
AudioSlash ==
    <<"a", "u", "d", "i", "o", "/">>
Mp3 ==
    <<"m", "p", "3">>
Mp4 ==
    <<"m", "p", "4">>
M4a ==
    <<"m", "4", "a">>
Webm ==
    <<"w", "e", "b", "m">>
CodecsAvcAac ==
    <<"a", "v", "c", "1", ".", "4", "2", "0", "0", "1", "E", ",", " ", "m", "p", "4", "a", ".", "4", "0", ".", "2">>
CodecsAac ==
    <<"m", "p", "4", "a", ".", "4", "0", ".", "2">>
CodecsOpus ==
    <<"o", "p", "u", "s">>
Zero ==
    <<"0">>
Itag18 ==
    <<"1", "8">>
Itag140 ==
    <<"1", "4", "0">>
Unknown ==
    <<"U", "n", "k", "n", "o", "w", "n">>
AudioQualityMedium ==
    <<"A", "U", "D", "I", "O", "_", "Q", "U", "A", "L", "I", "T", "Y", "_", "M", "E", "D", "I", "U", "M">>
SomeTitle ==
    <<"S", "o", "m", "e", " ", "T", "i", "t", "l", "e">>
SomeChannel ==
    <<"S", "o", "m", "e", " ", "C", "h", "a", "n", "n", "e", "l">>
SomeThumb ==
    <<"h", "t", "t", "p", "s", ":", "/", "/", "i", ".", "y", "t", "i", "m", "g", ".", "c", "o", "m", "/", "v", "i", "/", "x", "/", "h", "q", ".", "j", "p", "g">>
MirrorMp3 ==
    <<"h", "t", "t", "p", "s", ":", "/", "/", "w", "w", "w", ".", "y", "2", "m", "a", "t", "e", ".", "c", "o", "m", "/", "y", "o", "u", "t", "u", "b", "e", "-", "m", "p", "3", "/">>
MirrorVideo ==
    <<"h", "t", "t", "p", "s", ":", "/", "/", "w", "w", "w", ".", "y", "2", "m", "a", "t", "e", ".", "c", "o", "m", "/", "y", "o", "u", "t", "u", "b", "e", "/">>
Mp4Segment ==
    <<"/", "m", "p", "4", "/">>
OEmbedUrlHead ==
    <<"h", "t", "t", "p", "s", ":", "/", "/", "w", "w", "w", ".", "y", "o", "u", "t", "u", "b", "e", ".", "c", "o", "m", "/", "o", "e", "m", "b", "e", "d", "?", "u", "r", "l", "=", "h", "t", "t", "p", "s", ":", "/", "/", "w", "w", "w", ".", "y", "o", "u", "t", "u", "b", "e", ".", "c", "o", "m", "/", "w", "a", "t", "c", "h", "?", "v", "=">>
OEmbedUrlTail ==
    <<"&", "f", "o", "r", "m", "a", "t", "=", "j", "s", "o", "n">>
RapidUrlHead ==
    <<"h", "t", "t", "p", "s", ":", "/", "/", "y", "o", "u", "t", "u", "b", "e", "-", "m", "e", "d", "i", "a", "-", "d", "o", "w", "n", "l", "o", "a", "d", "e", "r", ".", "p", ".", "r", "a", "p", "i", "d", "a", "p", "i", ".", "c", "o", "m", "/", "v", "2", "/", "v", "i", "d", "e", "o", "/", "d", "e", "t", "a", "i", "l", "s", "?", "v", "i", "d", "e", "o", "I", "d", "=">>

(***************************************************************************)
(* JavaScript conversions used by GET /info                                *)
(***************************************************************************)
DigitChars == <<"0", "1", "2", "3", "4", "5", "6", "7", "8", "9">>

\* Number.prototype.toString() of an integer
RECURSIVE ToDecimal(_)
ToDecimal(n) ==
    IF n < 0 THEN <<"-">> \o ToDecimal(0 - n)
    ELSE IF n < 10 THEN <<DigitChars[n + 1]>>
    ELSE ToDecimal(n \div 10) \o <<DigitChars[(n % 10) + 1]>>

DigitValue(c) == CHOOSE d \in 0..9 : DigitChars[d + 1] = c

RECURSIVE DigitsValue(_)
DigitsValue(ds) ==
    IF ds = <<>> THEN 0
    ELSE 10 * DigitsValue(SubSeq(ds, 1, Len(ds) - 1)) + DigitValue(ds[Len(ds)])

\* s.split(sep)[0] for a one-character separator
SplitHead(s, sep) ==
    LET at == {i \in 1..Len(s) : s[i] = sep}
    IN  IF at = {} THEN s ELSE SubSeq(s, 1, Min(at) - 1)

\* parseInt(s): leading white space, an optional sign, then the longest run
\* of decimal digits; NaN when there is no digit.  (No label of the model
\* starts with 0x, so the radix-16 prefix is not modelled.)
parseInt(s) ==
    LET body == {i \in 1..Len(s) : s[i] \notin WhiteSpace}
    IN  IF body = {} THEN NaN
        ELSE LET i0 == Min(body)
                 neg == s[i0] = "-"
                 i1 == IF s[i0] \in {"+", "-"} THEN i0 + 1 ELSE i0
                 runs == {e \in i1..Len(s) : \A q \in i1..e : s[q] \in Digits}
             IN  IF runs = {} THEN NaN
                 ELSE LET v == DigitsValue(SubSeq(s, i1, Max(runs)))
                      IN  Num(IF neg THEN 0 - v ELSE v)

\* x - y on numbers, NaN and undefined
Minus(x, y) ==
    IF x.t = "number" /\ y.t = "number" THEN Num(x.n - y.n) ELSE NaN

\* v?.toString() || '0'
ToStringOrZero(v) ==
    IF v = Undefined \/ v = Null THEN Str(Zero) ELSE Str(ToDecimal(v.n))

(***************************************************************************)
(* GET /info: normalization of the Rapid API payload                       *)
(***************************************************************************)
\* parseInt(f.qualityLabel?.split('p')[0] || '0')
Resolution(f) ==
    IF f.qualityLabel = Undefined \/ f.qualityLabel = Null THEN parseInt(Zero)
    ELSE LET head == SplitHead(f.qualityLabel.s, "p")
         IN  parseInt(IF head = <<>> THEN Zero ELSE head)

\* the comparator handed to formats.sort
Compare(a, b) ==
    IF a.hasVideo /\ ~b.hasVideo THEN Num(0 - 1)
    ELSE IF ~a.hasVideo /\ b.hasVideo THEN Num(1)
    ELSE IF a.hasVideo /\ b.hasVideo THEN Minus(Resolution(b), Resolution(a))
    ELSE Minus(b.bitrate, a.bitrate)

\* Array.prototype.sort reads the comparator's result as a sign, NaN as +0
Sign(v) == IF v = NaN THEN 0 ELSE IF v.n < 0 THEN 0 - 1 ELSE IF v.n > 0 THEN 1 ELSE 0

Order(a, b) == Sign(Compare(a, b))

\* ECMAScript's "consistent comparator" over the elements of the list
ConsistentOn(list) ==
    LET E == {list[i] : i \in 1..Len(list)}
    IN  /\ \A a \in E : Order(a, a) = 0
        /\ \A a, b \in E : Order(a, b) = 0 - Order(b, a)
        /\ \A a, b, c \in E :
              /\ (Order(a, b) = 0 /\ Order(b, c) = 0) => Order(a, c) = 0
              /\ (Order(a, b) < 0 /\ Order(b, c) < 0) => Order(a, c) < 0
              /\ (Order(a, b) > 0 /\ Order(b, c) > 0) => Order(a, c) > 0
              /\ (Order(a, b) = 0 /\ Order(b, c) < 0) => Order(a, c) < 0
              /\ (Order(a, b) < 0 /\ Order(b, c) = 0) => Order(a, c) < 0

Permuted(list, p) == [i \in 1..Len(list) |-> list[p[i]]]

\* the results formats.sort(comparator) can leave in the array: the stable
\* sort when the comparator is consistent on the elements, and otherwise an
\* implementation-defined order, that is any permutation
SortOutcomes(list) ==
    LET perms == Permutations(1..Len(list))
    IN  IF ConsistentOn(list)
        THEN {Permuted(list, p) : p \in
                {q \in perms : \A i, j \in 1..Len(list) :
                    i < j => \/ Order(list[q[i]], list[q[j]]) < 0
                             \/ /\ Order(list[q[i]], list[q[j]]) = 0
                                /\ q[i] < q[j]}}
        ELSE {Permuted(list, p) : p \in perms}

\* the video entry with hasAudio set whatever the item says
VideoFormatAlwaysAudio(item) ==
    [itag |-> Str(ToDecimal(item.id.n)),
     mimeType |-> item.mimeType,
     qualityLabel |-> item.qualityLabel,
     bitrate |-> item.bitrate,
     hasVideo |-> TRUE,
     hasAudio |-> TRUE,
     container |-> item.container,
     codecs |-> item.codecs,
     contentLength |-> item.contentLength]

\* the object pushed for one item of videos.items
VideoFormat(item) ==
    [itag |-> Str(ToDecimal(item.id.n)),
     mimeType |-> item.mimeType,
     qualityLabel |-> item.qualityLabel,
     bitrate |-> item.bitrate,
     hasVideo |-> TRUE,
     hasAudio |-> item.audioQuality # Undefined,
     container |-> item.container,
     codecs |-> item.codecs,
     contentLength |-> item.contentLength]

\* the audio entry with hasAudio computed as for a video item
AudioFormatAudioQualityFlag(item) ==
    [itag |-> Str(ToDecimal(item.id.n)),
     mimeType |-> Str(AudioSlash \o
                     (IF Truthy(item.container) THEN item.container.s ELSE Mp3)),
     qualityLabel |-> Str(LabelAudioOnly),
     bitrate |-> item.bitrate,
     hasVideo |-> FALSE,
     hasAudio |-> item.audioQuality # Undefined,
     container |-> item.container,
     codecs |-> item.codecs,
     contentLength |-> item.contentLength]

\* the object pushed for one item of audios.items
AudioFormat(item) ==
    [itag |-> Str(ToDecimal(item.id.n)),
     mimeType |-> Str(AudioSlash \o
                     (IF Truthy(item.container) THEN item.container.s ELSE Mp3)),
     qualityLabel |-> Str(LabelAudioOnly),
     bitrate |-> item.bitrate,
     hasVideo |-> FALSE,
     hasAudio |-> TRUE,
     container |-> item.container,
     codecs |-> item.codecs,
     contentLength |-> item.contentLength]

\* group.items when  group && group.items  holds, the empty list otherwise
ItemsOf(group) ==
    IF group = Undefined THEN <<>>
    ELSE IF group.f.items = Undefined THEN <<>>
    ELSE group.f.items.a

\* the statements between the Rapid API call and the response throw a
\* TypeError: the payload is null, or item.id.toString() has no item.id
NormalizeThrows(data) ==
    \/ data = Null
    \/ /\ data # Null
       /\ \/ \E i \in 1..Len(ItemsOf(data.f.videos)) :
                ItemsOf(data.f.videos)[i].id = Undefined
          \/ \E i \in 1..Len(ItemsOf(data.f.audios)) :
                ItemsOf(data.f.audios)[i].id = Undefined

\* formats before formats.sort: the video items, then the audio items
PushedFormats(data) ==
    [i \in 1..Len(ItemsOf(data.f.videos)) |->
        VideoFormat(ItemsOf(data.f.videos)[i])]
    \o [i \in 1..Len(ItemsOf(data.f.audios)) |->
        AudioFormat(ItemsOf(data.f.audios)[i])]

\* the response object of the Rapid API path, for one outcome of the sort
PrimaryBody(videoId, data, sorted) ==
    [videoId |-> videoId,
     title |-> data.f.title,
     author |-> IF data.f.channel # Undefined /\ Truthy(data.f.channel.f.name)
                THEN data.f.channel.f.name ELSE Str(Unknown),
     lengthSeconds |-> ToStringOrZero(data.f.lengthSeconds),
     viewCount |-> ToStringOrZero(data.f.viewCount),
     thumbnailUrl |-> IF /\ data.f.thumbnails # Undefined
                         /\ Len(data.f.thumbnails.a) > 0
                         /\ Truthy(data.f.thumbnails.a[1].url)
                      THEN data.f.thumbnails.a[1].url ELSE Str(<<>>),
     formats |-> sorted]

\* the oEmbed path offering the combined entry only
FallbackFormatsVideoOnly ==
    <<[itag |-> Str(Itag18),
       mimeType |-> Str(MimeVideoMp4),
       qualityLabel |-> Str(Label360p),
       bitrate |-> Num(0),
       hasVideo |-> TRUE,
       hasAudio |-> TRUE,
       container |-> Str(Mp4),
       codecs |-> Str(CodecsAvcAac),
       contentLength |-> Str(Zero)]>>

\* the two formats of the oEmbed path
FallbackFormats ==
    <<[itag |-> Str(Itag18),
       mimeType |-> Str(MimeVideoMp4),
       qualityLabel |-> Str(Label360p),
       bitrate |-> Num(0),
       hasVideo |-> TRUE,
       hasAudio |-> TRUE,
       container |-> Str(Mp4),
       codecs |-> Str(CodecsAvcAac),
       contentLength |-> Str(Zero)],
      [itag |-> Str(Itag140),
       mimeType |-> Str(MimeAudioMp4),
       qualityLabel |-> Str(LabelAudioOnly),
       bitrate |-> Num(128000),
       hasVideo |-> FALSE,
       hasAudio |-> TRUE,
       container |-> Str(Mp4),
       codecs |-> Str(CodecsAac),
       contentLength |-> Str(Zero)]>>

\* the response object of the oEmbed path
FallbackBody(videoId, data) ==
    [videoId |-> videoId,
     title |-> data.f.title,
     author |-> data.f.author_name,
     lengthSeconds |-> Str(Zero),
     viewCount |-> Str(Zero),
     thumbnailUrl |-> data.f.thumbnail_url,
     formats |-> FallbackFormats]

(***************************************************************************)
(* Provider payloads and request parameters explored                       *)
(***************************************************************************)
\* most items (video and audio together) in one Rapid API payload
MaxItems == 3

Item(id, mimeType, qualityLabel, bitrate, audioQuality, container, codecs, contentLength) ==
    [id |-> id, mimeType |-> mimeType, qualityLabel |-> qualityLabel,
     bitrate |-> bitrate, audioQuality |-> audioQuality,
     container |-> container, codecs |-> codecs,
     contentLength |-> contentLength]

VideoItems ==
    {Item(Num(298), Str(MimeVideoMp4), Str(Label720p60), Num(2000000),
          Str(AudioQualityMedium), Str(Mp4), Str(CodecsAvcAac), Str(Zero)),
     Item(Num(135), Str(MimeVideoMp4), Str(Label480p), Num(1000000),
          Undefined, Str(Mp4), Str(CodecsAvcAac), Undefined),
     Item(Num(18), Str(MimeVideoMp4), Str(LabelHd), Num(500000),
          Str(AudioQualityMedium), Str(Mp4), Undefined, Undefined),
     Item(Num(160), Undefined, Str(<<>>), Num(100000),
          Undefined, Undefined, Undefined, Undefined),
     Item(Num(133), Undefined, Undefined, Undefined,
          Undefined, Undefined, Undefined, Undefined),
     Item(Undefined, Str(MimeVideoMp4), Str(Label720p60), Num(2000000),
          Undefined, Str(Mp4), Undefined, Undefined)}

AudioItems ==
    {Item(Num(140), Str(MimeAudioMp4), Undefined, Num(128000),
          Str(AudioQualityMedium), Str(M4a), Str(CodecsAac), Str(Zero)),
     Item(Num(141), Undefined, Undefined, Num(256000),
          Undefined, Undefined, Undefined, Undefined),
     Item(Num(251), Str(MimeAudioWebmOpus), Undefined, Undefined,
          Undefined, Str(Webm), Str(CodecsOpus), Undefined)}

SeqsUpTo(S, n) == UNION {[1..k -> S] : k \in 0..n}

\* title, channel, lengthSeconds, viewCount, thumbnails of a payload
FullMeta ==
    [title |-> Str(SomeTitle), channel |-> Obj([name |-> Str(SomeChannel)]),
     lengthSeconds |-> Num(212), viewCount |-> Num(0),
     thumbnails |-> Arr(<<[url |-> Str(SomeThumb)]>>)]
BareMeta ==
    [title |-> Undefined, channel |-> Undefined,
     lengthSeconds |-> Undefined, viewCount |-> Undefined,
     thumbnails |-> Undefined]
Metas == {FullMeta, BareMeta}

Payload(meta, videos, audios) ==
    Obj([title |-> meta.title, channel |-> meta.channel,
         lengthSeconds |-> meta.lengthSeconds, viewCount |-> meta.viewCount,
         thumbnails |-> meta.thumbnails, videos |-> videos, audios |-> audios])

\* the JSON values fetchRapidApiInfo can return
RapidApiPayloads ==
    {Null}
    \cup {Payload(m, Undefined, Undefined) : m \in Metas}
    \cup {Payload(m, Obj([items |-> Undefined]), Obj([items |-> Undefined])) :
            m \in Metas}
    \cup {Payload(FullMeta, Obj([items |-> Arr(v)]), Obj([items |-> Arr(a)])) :
            <<v, a>> \in
                {q \in SeqsUpTo(VideoItems, MaxItems)
                       \X SeqsUpTo(AudioItems, MaxItems) :
                    Len(q[1]) + Len(q[2]) <= MaxItems}}

\* the JSON values fetchOEmbedInfo can return
OEmbedPayloads ==
    {Null,
     Obj([title |-> Str(SomeTitle), author_name |-> Str(SomeChannel),
          thumbnail_url |-> Str(SomeThumb)]),
     Obj([title |-> Undefined, author_name |-> Undefined,
          thumbnail_url |-> Undefined])}

\* values of the url parameter of /info
InfoUrls ==
    {Null, Str(<<>>), Str(NotAUrl), Str(ExampleCom),
     Str(Https \o Www \o LitYoutubeCom \o WatchPath \o IdRick),
     Str(Https \o LitYoutuBe \o DottedTail)}

(***************************************************************************)
(* State                                                                   *)
(***************************************************************************)
VARIABLES
    exIn,       \* extractor: the input string and the identifier it embeds
    exOut,      \* extractor: the value returned, Undefined before the call
    iPc,        \* /info: "idle", "primary", "fallback" or "done"
    iUrl,       \* /info: the url parameter of the request being handled
    iVideoId,   \* /info: const videoId
    iCalls,     \* /info: the outbound fetches of the request, in order
    iPrimary,   \* /info: how fetchRapidApiInfo completed
    iFallback,  \* /info: how fetchOEmbedInfo completed
    iResp,      \* /info: the response, Undefined while there is none
    dPc,        \* /download: "idle" or "done"
    dReq,       \* /download: the url, itag, format, videoId parameters
    dExtracted, \* /download: the strings handed to extractVideoId
    dResp,      \* /download: the response, Undefined while there is none
    cInfo,      \* concurrent /info requests: the locals of each invocation
    cDown,      \* concurrent /download: the last request and its response
    cOutbound,  \* the fetches the server has made, counted by provider
    vf,         \* VideoForm: the state its handleSubmit reads and sets
    hm,         \* Home page: its state, and its requests in flight
    vi,         \* VideoInfo: the last click and the request it opened
    dm          \* DownloadManager: state, update queue, browser storage

exVars == <<exIn, exOut>>
iVars == <<iPc, iUrl, iVideoId, iCalls, iPrimary, iFallback, iResp>>
dVars == <<dPc, dReq, dExtracted, dResp>>
cVars == <<cInfo, cDown, cOutbound>>
pVars == <<vf, hm, vi, dm>>
vars == <<exIn, exOut, iPc, iUrl, iVideoId, iCalls, iPrimary, iFallback, iResp,
          dPc, dReq, dExtracted, dResp, cInfo, cDown, cOutbound,
          vf, hm, vi, dm>>

NotCalled == [kind |-> "none"]
Threw == [kind |-> "threw"]
Returned(data) == [kind |-> "returned", data |-> data]

\* no /info request is being handled
InfoIdle ==
    /\ iPc = "idle"
    /\ iUrl = Undefined
    /\ iVideoId = Undefined
    /\ iCalls = <<>>
    /\ iPrimary = NotCalled
    /\ iFallback = NotCalled
    /\ iResp = Undefined

\* no /download request is being handled
DownloadIdle ==
    /\ dPc = "idle"
    /\ dReq = Undefined
    /\ dExtracted = <<>>
    /\ dResp = Undefined

\* the extractor is not exercised
ExtractIdle ==
    /\ exIn = [s |-> <<>>, id |-> Null, form |-> "none"]
    /\ exOut = Undefined

\* most /info requests in flight together
MaxRequests == 2
InfoSlots == 1..MaxRequests

\* the locals of an invocation of the /info handler that has not started
IdleSlot ==
    [pc |-> "idle", url |-> Undefined, videoId |-> Undefined, calls |-> <<>>,
     primary |-> NotCalled, fallback |-> NotCalled, resp |-> Undefined]

\* no concurrent request has arrived and no fetch has been made
ConcurrentIdle ==
    /\ cInfo = [r \in InfoSlots |-> IdleSlot]
    /\ cDown = [req |-> Undefined, resp |-> Undefined]
    /\ cOutbound = [rapidapi |-> 0, oembed |-> 0]

\* VideoForm before any submission: useState and the parent's state
VideoFormIdle ==
    [pc |-> "idle", loading |-> FALSE, isSubmitting |-> FALSE,
     videoInfo |-> Null, error |-> "", downloadHistory |-> <<>>,
     cleanedUrl |-> <<>>, before |-> <<>>, outcome |-> "none"]

\* the Home page as useState initializes it, with no request in flight
HomeIdle ==
    [pc |-> "idle", url |-> <<>>, loading |-> FALSE, videoInfo |-> Null,
     downloadHistory |-> <<>>, inFlight |-> {},
     before |-> <<>>, outcome |-> "none"]

\* VideoInfo before any click
VideoInfoIdle ==
    [videoInfo |-> Null, itag |-> Null, format |-> Null,
     opened |-> Null, resp |-> Undefined]

\* DownloadManager before it is mounted, browser storage holding item
DownloadManagerUnmounted(item) ==
    [phase |-> "unmounted", downloads |-> <<>>, queue |-> <<>>,
     storage |-> item, saveDue |-> FALSE, saved |-> item, user |-> FALSE,
     strict |-> FALSE]

\* no component of the page has been used
PresentationIdle ==
    /\ vf = VideoFormIdle
    /\ hm = HomeIdle
    /\ vi = VideoInfoIdle
    /\ dm = DownloadManagerUnmounted(Null)

(***************************************************************************)
(* The extractor applied to one input after the other                      *)
(***************************************************************************)
InitExtract ==
    /\ exIn \in Inputs
    /\ exOut = Undefined
    /\ InfoIdle
    /\ DownloadIdle
    /\ ConcurrentIdle
    /\ PresentationIdle

ExtractCall ==
    /\ exOut = Undefined
    /\ exOut' = extractVideoId(exIn.s)
    /\ UNCHANGED <<exIn, iVars, dVars, cVars, pVars>>

ExtractNextInput ==
    /\ exOut # Undefined
    /\ exIn' \in Inputs
    /\ exOut' = Undefined
    /\ UNCHANGED <<iVars, dVars, cVars, pVars>>

NextExtract == ExtractCall \/ ExtractNextInput

SpecExtract == InitExtract /\ [][NextExtract]_vars

WellFormedId(s) == Len(s) = IdLen /\ \A k \in 1..Len(s) : IdChar(s[k])

C7_ReturnsNullOrWellFormed ==
    exOut # Undefined => (exOut = Null \/ WellFormedId(exOut.s))

\* C8: the rules are applied in their listed order, the capture of the first
\* matching rule is returned, and an input no rule matches gives null
C8_FirstMatchingRule ==
    exOut # Undefined =>
        LET hits == {k \in 1..NumPatterns : Match(k, exIn.s) # Null}
        IN  /\ hits = {} => exOut = Null
            /\ hits # {} => exOut = Match(Min(hits), exIn.s)
            /\ exIn.s \in {NotAUrl, ExampleCom} => exOut = Null

C8_Witness ==
    /\ exIn.s = TwoCandidates
    /\ exOut = Str(IdRick)
    /\ Match(3, exIn.s) = Str(IdOther)

(***************************************************************************)
(* GET /info                                                               *)
(***************************************************************************)
UrlRequired == "URL parameter is required"
CouldNotExtract == "Could not extract video ID from URL"
AllMethodsFailed == "All methods failed to fetch video information"
FailedToFetch == "Failed to fetch video information"

\* NextResponse.json(body, { status })
Json(status, body) == [status |-> status, body |-> body]

\* ${v} in a template literal
Interpolate(v) ==
    CASE v = Null -> <<"n", "u", "l", "l">>
      [] v = Undefined -> <<"u", "n", "d", "e", "f", "i", "n", "e", "d">>
      [] OTHER -> v.s

\* the fetch of fetchRapidApiInfo and the fetch of fetchOEmbedInfo
RapidApiCall(videoId) ==
    [provider |-> "rapidapi", url |-> RapidUrlHead \o Interpolate(videoId)]
OEmbedCall(videoId) ==
    [provider |-> "oembed",
     url |-> OEmbedUrlHead \o Interpolate(videoId) \o OEmbedUrlTail]

\* the handler without the  if (!videoId)  return
InfoStartNoIdCheck(u) ==
    /\ iPc = "idle"
    /\ iUrl' = u
    /\ iPrimary' = NotCalled
    /\ iFallback' = NotCalled
    /\ IF ~Truthy(u)
       THEN /\ iResp' = Json(400, [error |-> UrlRequired])
            /\ iPc' = "done"
            /\ UNCHANGED <<iVideoId, iCalls>>
       ELSE /\ iVideoId' = extractVideoId(u.s)
            /\ iCalls' = <<RapidApiCall(extractVideoId(u.s))>>
            /\ iPc' = "primary"
            /\ iResp' = Undefined
    /\ UNCHANGED <<exVars, dVars, cVars, pVars>>

\* GET from its first statement to the await of fetchRapidApiInfo
InfoStart(u) ==
    /\ iPc = "idle"
    /\ iUrl' = u
    /\ iPrimary' = NotCalled
    /\ iFallback' = NotCalled
    /\ IF ~Truthy(u)
       THEN /\ iResp' = Json(400, [error |-> UrlRequired])
            /\ iPc' = "done"
            /\ UNCHANGED <<iVideoId, iCalls>>
       ELSE IF ~Truthy(extractVideoId(u.s))
       THEN /\ iResp' = Json(400, [error |-> CouldNotExtract])
            /\ iPc' = "done"
            /\ iVideoId' = extractVideoId(u.s)
            /\ UNCHANGED iCalls
       ELSE /\ iVideoId' = extractVideoId(u.s)
            /\ iCalls' = <<RapidApiCall(extractVideoId(u.s))>>
            /\ iPc' = "primary"
            /\ iResp' = Undefined
    /\ UNCHANGED <<exVars, dVars, cVars, pVars>>

\* the catch that calls the Rapid API a second time before falling back
CatchRapidApiErrorRetry ==
    IF Len(iCalls) < 2
    THEN /\ iCalls' = Append(iCalls, RapidApiCall(iVideoId))
         /\ iPc' = "primary"
         /\ UNCHANGED <<iFallback, iResp>>
    ELSE /\ iCalls' = Append(iCalls, OEmbedCall(iVideoId))
         /\ iPc' = "fallback"
         /\ UNCHANGED <<iFallback, iResp>>

\* catch (rapidApiError): up to the await of fetchOEmbedInfo
CatchRapidApiError ==
    /\ iCalls' = Append(iCalls, OEmbedCall(iVideoId))
    /\ iPc' = "fallback"
    /\ UNCHANGED <<iFallback, iResp>>

\* fetchRapidApiInfo rethrows: the fetch rejects, the status is not ok, or
\* the body is not JSON
PrimaryThrows ==
    /\ iPc = "primary"
    /\ iPrimary' = Threw
    /\ CatchRapidApiError
    /\ UNCHANGED <<iUrl, iVideoId, exVars, dVars, cVars, pVars>>

\* fetchRapidApiInfo returns data: the formats are built and sorted and the
\* 200 response is sent, unless one of these statements throws
PrimaryReturns(data) ==
    /\ iPc = "primary"
    /\ iPrimary' = Returned(data)
    /\ IF NormalizeThrows(data)
       THEN CatchRapidApiError
       ELSE /\ \E sorted \in SortOutcomes(PushedFormats(data)) :
                 iResp' = Json(200, PrimaryBody(iVideoId, data, sorted))
            /\ iPc' = "done"
            /\ UNCHANGED <<iCalls, iFallback>>
    /\ UNCHANGED <<iUrl, iVideoId, exVars, dVars, cVars, pVars>>

\* the outer catch answering with its default message
CatchAllDefaultMessage ==
    /\ iResp' = Json(500, [error |-> FailedToFetch])
    /\ iPc' = "done"
    /\ UNCHANGED <<iCalls, iPrimary>>

\* the outer catch logging the error and returning nothing
CatchAllNoResponse ==
    /\ iPc' = "failed"
    /\ UNCHANGED <<iCalls, iPrimary, iResp>>

\* catch (oembedError) throws 'All methods failed ...', the outer catch
\* answers 500 with that message
CatchAll ==
    /\ iResp' = Json(500, [error |-> AllMethodsFailed])
    /\ iPc' = "done"
    /\ UNCHANGED <<iCalls, iPrimary>>

\* fetchOEmbedInfo rethrows
FallbackThrows ==
    /\ iPc = "fallback"
    /\ iFallback' = Threw
    /\ CatchAll
    /\ UNCHANGED <<iUrl, iVideoId, exVars, dVars, cVars, pVars>>

\* fetchOEmbedInfo returns data: the 200 response with the two formats is
\* sent, unless reading a property of data throws (data is null)
FallbackReturns(data) ==
    /\ iPc = "fallback"
    /\ iFallback' = Returned(data)
    /\ IF data = Null
       THEN CatchAll
       ELSE /\ iResp' = Json(200, FallbackBody(iVideoId, data))
            /\ iPc' = "done"
            /\ UNCHANGED <<iCalls, iPrimary>>
    /\ UNCHANGED <<iUrl, iVideoId, exVars, dVars, cVars, pVars>>

\* the response is sent and nothing of the request is kept
InfoDone ==
    /\ iPc = "done"
    /\ iPc' = "idle"
    /\ iUrl' = Undefined
    /\ iVideoId' = Undefined
    /\ iCalls' = <<>>
    /\ iPrimary' = NotCalled
    /\ iFallback' = NotCalled
    /\ iResp' = Undefined
    /\ UNCHANGED <<exVars, dVars, cVars, pVars>>

Init ==
    ExtractIdle /\ InfoIdle /\ DownloadIdle /\ ConcurrentIdle
        /\ PresentationIdle

Next ==
    \/ \E u \in InfoUrls : InfoStart(u)
    \/ PrimaryThrows
    \/ \E data \in RapidApiPayloads : PrimaryReturns(data)
    \/ FallbackThrows
    \/ \E data \in OEmbedPayloads : FallbackReturns(data)
    \/ InfoDone

Spec == Init /\ [][Next]_vars

\* most items in a Rapid API payload of the runs checked for progress
MaxLiveItems == 2
LivePayloads ==
    {data \in RapidApiPayloads :
        \/ data = Null
        \/ Len(ItemsOf(data.f.videos)) + Len(ItemsOf(data.f.audios))
              <= MaxLiveItems}

\* the awaited promise of fetchRapidApiInfo, of fetchOEmbedInfo, settles
PrimaryCompletes ==
    PrimaryThrows \/ \E data \in LivePayloads : PrimaryReturns(data)
FallbackCompletes ==
    FallbackThrows \/ \E data \in OEmbedPayloads : FallbackReturns(data)

NextLive ==
    \/ \E u \in InfoUrls : InfoStart(u)
    \/ PrimaryCompletes
    \/ FallbackCompletes
    \/ InfoDone

\* /info when every provider call completes: the handler resumes after
\* each await
SpecLive ==
    Init /\ [][NextLive]_vars
         /\ WF_vars(PrimaryCompletes) /\ WF_vars(FallbackCompletes)

(***************************************************************************)
(* Properties of GET /info                                                 *)
(***************************************************************************)
CallsTo(provider) ==
    Cardinality({k \in 1..Len(iCalls) : iCalls[k].provider = provider})

\* the payload has the structure the handler expects: an object whose video
\* and audio items all carry an id
IsVideoDetails(data) ==
    /\ data # Null
    /\ \A i \in 1..Len(ItemsOf(data.f.videos)) :
          ItemsOf(data.f.videos)[i].id # Undefined
    /\ \A i \in 1..Len(ItemsOf(data.f.audios)) :
          ItemsOf(data.f.audios)[i].id # Undefined

\* a provider call fails when the fetch fails, the status is not a success,
\* or the body is not the expected structure
PrimaryFailed ==
    \/ iPrimary = Threw
    \/ iPrimary.kind = "returned" /\ ~IsVideoDetails(iPrimary.data)

PrimarySucceeded ==
    iPrimary.kind = "returned" /\ IsVideoDetails(iPrimary.data)

FallbackFailed ==
    \/ iFallback = Threw
    \/ iFallback.kind = "returned" /\ iFallback.data = Null

FallbackSucceeded ==
    iFallback.kind = "returned" /\ iFallback.data # Null

\* C1: a missing, empty or unextractable url is answered 400 with an error
\* payload, and no provider is called during the request
C1_BadInputShortCircuits ==
    (iPc # "idle" /\ (~Truthy(iUrl) \/ extractVideoId(iUrl.s) = Null)) =>
        /\ iCalls = <<>>
        /\ iPc = "done"
        /\ iResp.status = 400
        /\ "error" \in DOMAIN iResp.body

C1_Witness ==
    /\ iPc = "done"
    /\ iUrl = Str(NotAUrl)
    /\ iResp.status = 400
    /\ iCalls = <<>>

\* C2: when the Primary call fails the Fallback is called exactly once, and
\* if it succeeds the response is 200 with exactly the combined 360p MP4
\* format and the 128 kbps MP4 audio format, both of contentLength "0", and
\* lengthSeconds "0" and viewCount "0"
C2_FallbackOnceThenTwoFormats ==
    PrimaryFailed =>
        /\ CallsTo("oembed") = 1
        /\ (iPc = "done" /\ FallbackSucceeded) =>
              /\ iResp.status = 200
              /\ Len(iResp.body.formats) = 2
              /\ \E i, j \in 1..2 :
                    LET v == iResp.body.formats[i]
                        a == iResp.body.formats[j]
                    IN  /\ i # j
                        /\ v.hasVideo /\ v.hasAudio
                        /\ v.qualityLabel = Str(<<"3", "6", "0", "p">>)
                        /\ v.container = Str(<<"m", "p", "4">>)
                        /\ v.contentLength = Str(<<"0">>)
                        /\ ~a.hasVideo /\ a.hasAudio
                        /\ a.bitrate = Num(128000)
                        /\ a.container = Str(<<"m", "p", "4">>)
                        /\ a.contentLength = Str(<<"0">>)
              /\ iResp.body.lengthSeconds = Str(<<"0">>)
              /\ iResp.body.viewCount = Str(<<"0">>)

C2_Witness ==
    /\ iPc = "done"
    /\ iPrimary = Threw
    /\ FallbackSucceeded
    /\ iResp.status = 200
    /\ CallsTo("oembed") = 1

\* C3: when both provider calls fail the response is 500 with the message
\* "All methods failed to fetch video information"
C3_BothFailGive500 ==
    (iPc = "done" /\ PrimaryFailed /\ FallbackFailed) =>
        iResp = [status |-> 500,
                 body |-> [error |->
                    "All methods failed to fetch video information"]]

C3_Witness ==
    /\ iPc = "done"
    /\ iPrimary = Threw
    /\ iFallback = Threw
    /\ iResp.status = 500

\* C4: within one request each provider is called at most once, the
\* Fallback call comes only after the failed Primary call, and a successful
\* Primary call excludes the Fallback call
C4_SequentialNoRetry ==
    /\ CallsTo("rapidapi") <= 1
    /\ CallsTo("oembed") <= 1
    /\ \A k \in 1..Len(iCalls) :
          iCalls[k].provider = "oembed" =>
              /\ k > 1
              /\ iCalls[1].provider = "rapidapi"
              /\ PrimaryFailed
    /\ PrimarySucceeded => CallsTo("oembed") = 0
    /\ iPc = "fallback" => PrimaryFailed

C4_Witness ==
    /\ iPc = "done"
    /\ PrimarySucceeded
    /\ Len(iResp.body.formats) > 1
    /\ iCalls = <<RapidApiCall(iVideoId)>>

\* the resolution and the bitrate as the ordering rule reads them: the
\* leading digits of qualityLabel, 0 when there are none; 0 for an
\* unreported bitrate
RuleResolution(f) == IF Resolution(f) = NaN THEN 0 ELSE Resolution(f).n
RuleBitrate(f) == IF f.bitrate = Undefined THEN 0 ELSE f.bitrate.n

OrderedByRule(out, pre) ==
    \E p \in Permutations(1..Len(pre)) :
        /\ out = Permuted(pre, p)
        /\ \A i, j \in 1..Len(out) :
              i < j =>
                /\ ~(~out[i].hasVideo /\ out[j].hasVideo)
                /\ (out[i].hasVideo /\ out[j].hasVideo) =>
                      \/ RuleResolution(out[i]) > RuleResolution(out[j])
                      \/ /\ RuleResolution(out[i]) = RuleResolution(out[j])
                         /\ p[i] < p[j]
                /\ (~out[i].hasVideo /\ ~out[j].hasVideo) =>
                      \/ RuleBitrate(out[i]) > RuleBitrate(out[j])
                      \/ /\ RuleBitrate(out[i]) = RuleBitrate(out[j])
                         /\ p[i] < p[j]

\* C5: the formats of a Primary response have every video format before
\* every audio-only format, video formats in non-increasing resolution,
\* audio-only formats in non-increasing bitrate, equal ones in provider order
C5_FormatsOrdered ==
    (iPc = "done" /\ PrimarySucceeded) =>
        OrderedByRule(iResp.body.formats, PushedFormats(iPrimary.data))

\* the ordering rule does hold for the payloads whose labels all parse and
\* whose bitrates are all reported
AllKeysReported(pre) ==
    \A i \in 1..Len(pre) :
        IF pre[i].hasVideo THEN Resolution(pre[i]) # NaN
        ELSE pre[i].bitrate # Undefined

OrderedWhenKeysReported ==
    (iPc = "done" /\ PrimarySucceeded
        /\ AllKeysReported(PushedFormats(iPrimary.data))) =>
        OrderedByRule(iResp.body.formats, PushedFormats(iPrimary.data))

\* C12: in every 200 response of /info, on the Primary and on the Fallback
\* path, each format has hasVideo or hasAudio true
C12_EveryFormatHasAStream ==
    (iPc = "done" /\ iResp.status = 200) =>
        \A i \in 1..Len(iResp.body.formats) :
            \/ iResp.body.formats[i].hasVideo = TRUE
            \/ iResp.body.formats[i].hasAudio = TRUE

C12_Witness ==
    /\ iPc = "done"
    /\ iResp.status = 200
    /\ PrimarySucceeded
    /\ \E i, j \in 1..Len(iResp.body.formats) :
          /\ iResp.body.formats[i].hasVideo
          /\ ~iResp.body.formats[i].hasAudio
          /\ ~iResp.body.formats[j].hasVideo
          /\ iResp.body.formats[j].hasAudio
          /\ iResp.body.formats[j].itag = Str(<<"1", "4", "1">>)

\* the fields of a video-info response that carry the video's data
VideoInfoFields ==
    {"videoId", "title", "author", "lengthSeconds", "viewCount",
     "thumbnailUrl", "formats"}

\* the body carries a flag, beside the data fields, that is set
HasProvenanceFlag(body) ==
    \E k \in DOMAIN body \ VideoInfoFields : body[k] = TRUE

\* C13: every 200 response produced on the Fallback path carries a
\* provenance flag, which no response of the Primary path carries
C13_FallbackFlagged ==
    (iPc = "done" /\ iResp.status = 200) =>
        (HasProvenanceFlag(iResp.body) <=> CallsTo("oembed") = 1)

\* the source of format number i of the response under the matching p:
\* an item of videos.items, or of audios.items
SourceItem(data, p, i) ==
    IF p[i] <= Len(ItemsOf(data.f.videos))
    THEN [video |-> TRUE, item |-> ItemsOf(data.f.videos)[p[i]]]
    ELSE [video |-> FALSE,
          item |-> ItemsOf(data.f.audios)[p[i] - Len(ItemsOf(data.f.videos))]]

\* C14: on the Primary path the formats are, one for one, the video items
\* and the audio items of the payload: a video item gives a format with
\* hasVideo true and hasAudio true exactly when the item has an
\* audioQuality; an audio item gives a format with hasVideo false, hasAudio
\* true and qualityLabel "Audio Only"; the number of formats is the number
\* of video items plus the number of audio items
C14_OneFormatPerItem ==
    (iPc = "done" /\ PrimarySucceeded) =>
        LET data == iPrimary.data
            out == iResp.body.formats
        IN  /\ Len(out) = Len(ItemsOf(data.f.videos))
                             + Len(ItemsOf(data.f.audios))
            /\ \E p \in Permutations(1..Len(out)) :
                  \A i \in 1..Len(out) :
                      LET src == SourceItem(data, p, i)
                      IN  /\ out[i].itag = Str(ToDecimal(src.item.id.n))
                          /\ out[i].hasVideo = src.video
                          /\ src.video =>
                                out[i].hasAudio
                                    = (src.item.audioQuality # Undefined)
                          /\ ~src.video =>
                                /\ out[i].hasAudio = TRUE
                                /\ out[i].qualityLabel =
                                      Str(<<"A", "u", "d", "i", "o", " ",
                                            "O", "n", "l", "y">>)

C14_Witness ==
    /\ iPc = "done"
    /\ PrimarySucceeded
    /\ Len(ItemsOf(iPrimary.data.f.videos)) = 2
    /\ Len(ItemsOf(iPrimary.data.f.audios)) = 1
    /\ Len(iResp.body.formats) = 3
    /\ \E i \in 1..3 : /\ iResp.body.formats[i].hasVideo
                       /\ ~iResp.body.formats[i].hasAudio
    /\ \E i \in 1..3 : /\ iResp.body.formats[i].hasVideo
                       /\ iResp.body.formats[i].hasAudio

\* the formats of the response made from the audio item
AudioFormatsOf(item) ==
    {i \in 1..Len(iResp.body.formats) :
        /\ ~iResp.body.formats[i].hasVideo
        /\ iResp.body.formats[i].itag = Str(ToDecimal(item.id.n))}

\* C15: on the Primary path the mimeType of an audio format is the MIME
\* type the provider supplied for the item, and "audio/" followed by the
\* container only when the provider supplied none
C15_AudioMimeTypeFromProvider ==
    (iPc = "done" /\ PrimarySucceeded) =>
        \A k \in 1..Len(ItemsOf(iPrimary.data.f.audios)) :
            LET item == ItemsOf(iPrimary.data.f.audios)[k]
            IN  \A i \in AudioFormatsOf(item) :
                    /\ item.mimeType # Undefined =>
                          iResp.body.formats[i].mimeType = item.mimeType
                    /\ (item.mimeType = Undefined
                            /\ item.container # Undefined) =>
                          iResp.body.formats[i].mimeType =
                              Str(<<"a", "u", "d", "i", "o", "/">>
                                  \o item.container.s)

\* the label has no leading digits: it is missing, empty or starts with
\* another character
NoLeadingDigits(f) ==
    \/ f.qualityLabel = Undefined
    \/ f.qualityLabel = Null
    \/ f.qualityLabel.s = <<>>
    \/ f.qualityLabel.s[1] \notin Digits

\* C16: a video format whose qualityLabel has no parseable leading digits
\* is compared as resolution 0, comes after every video format of positive
\* resolution in the response, and the comparator stays consistent (a total
\* preorder) on the formats of the request
C16_UnparseableLabelIsZero ==
    (iPc = "done" /\ PrimarySucceeded) =>
        LET out == iResp.body.formats
        IN  /\ \A i \in 1..Len(out) :
                  (out[i].hasVideo /\ NoLeadingDigits(out[i])) =>
                      Resolution(out[i]) = Num(0)
            /\ \A i, j \in 1..Len(out) :
                  (/\ i < j
                   /\ out[i].hasVideo /\ out[j].hasVideo
                   /\ NoLeadingDigits(out[i])
                   /\ ~NoLeadingDigits(out[j])) =>
                      Resolution(out[j]) = Num(0)
            /\ ConsistentOn(SelectSeq(out, LAMBDA f : f.hasVideo))

\* C17: in every 200 response of /info each format's bitrate is a
\* non-negative integer, and 0 when the provider reported none
C17_BitrateNonNegativeInteger ==
    (iPc = "done" /\ iResp.status = 200) =>
        \A i \in 1..Len(iResp.body.formats) :
            /\ iResp.body.formats[i].bitrate.t = "number"
            /\ iResp.body.formats[i].bitrate.n \in Nat
            /\ PrimarySucceeded =>
                  \A item \in
                        {ItemsOf(iPrimary.data.f.videos)[k] :
                            k \in 1..Len(ItemsOf(iPrimary.data.f.videos))}
                        \cup {ItemsOf(iPrimary.data.f.audios)[k] :
                            k \in 1..Len(ItemsOf(iPrimary.data.f.audios))} :
                      (/\ item.bitrate = Undefined
                       /\ iResp.body.formats[i].itag
                             = Str(ToDecimal(item.id.n))) =>
                          iResp.body.formats[i].bitrate = Num(0)

\* the request has its response; one of its provider calls is in flight
Answered ==
    iPc = "done" /\ iResp # Undefined /\ iResp.status \in {200, 400, 500}
CallPending ==
    \/ iPc = "primary" /\ iPrimary = NotCalled
    \/ iPc = "fallback" /\ iFallback = NotCalled

\* C19: when each provider call of a /info request completes, the request
\* eventually gets a response, of status 200, 400 or 500; it is unanswered
\* only while one of its provider calls is in flight; the response is not
\* replaced by another, and the request ends only once answered
C19_EveryRequestAnswered ==
    /\ (iPc # "idle") ~> Answered
    /\ [](iPc # "idle" => (Answered \/ CallPending))
    /\ [][iResp # Undefined => (iResp' = iResp \/ iPc' = "idle")]_vars
    /\ [][(iPc # "idle" /\ iPc' = "idle") => Answered]_vars

C19_Witness ==
    /\ Answered
    /\ CallsTo("rapidapi") = 1
    /\ CallsTo("oembed") = 1
    /\ iPrimary # NotCalled
    /\ iFallback # NotCalled
    /\ iResp.status = 500

(***************************************************************************)
(* GET /download                                                           *)
(***************************************************************************)
UrlOrVideoIdRequired == "URL or videoId parameter is required"
InvalidYouTubeUrl == "Invalid YouTube URL. Could not extract video ID."

\* values of the url, videoId, itag and format parameters of /download
DownloadUrls ==
    {Null, Str(<<>>), Str(NotAUrl),
     Str(Https \o Www \o LitYoutubeCom \o WatchPath \o IdRick),
     Str(Https \o LitYoutuBe \o DottedTail)}
DownloadVideoIds == {Null, Str(<<>>), Str(IdRick), Str(IdOther), Str(NotAUrl)}
DownloadItags == {Null, Str(<<>>), Str(<<"2", "2">>)}
DownloadFormats == {Null, Str(Mp3), Str(Mp4), Str(<<"M", "P", "3">>)}

\* NextResponse.redirect(url): a temporary redirect to url
Redirect(url) == [status |-> 307, location |-> url]

\* the mirror link with the itag test placed before the format test
DownloadLinkItagFirst(finalVideoId, itag, format) ==
    IF Truthy(itag)
    THEN Redirect(MirrorVideo \o finalVideoId \o Mp4Segment \o itag.s)
    ELSE IF format = Str(Mp3)
    THEN Redirect(MirrorMp3 \o finalVideoId)
    ELSE Redirect(MirrorVideo \o finalVideoId)

\* the mirror link for finalVideoId, by format and itag
DownloadLink(finalVideoId, itag, format) ==
    IF format = Str(Mp3)
    THEN Redirect(MirrorMp3 \o finalVideoId)
    ELSE IF Truthy(itag)
    THEN Redirect(MirrorVideo \o finalVideoId \o Mp4Segment \o itag.s)
    ELSE Redirect(MirrorVideo \o finalVideoId)

\* the handler looking at url before videoId
DownloadResponseUrlFirst(url, itag, format, videoId) ==
    IF ~Truthy(url) /\ ~Truthy(videoId)
    THEN Json(400, [error |-> UrlOrVideoIdRequired])
    ELSE IF Truthy(url)
    THEN IF ~Truthy(extractVideoId(url.s))
         THEN Json(400, [error |-> InvalidYouTubeUrl])
         ELSE DownloadLink(extractVideoId(url.s).s, itag, format)
    ELSE DownloadLink(videoId.s, itag, format)

\* the handler without the 400 for a url that yields no identifier
DownloadResponseNoIdCheck(url, itag, format, videoId) ==
    IF ~Truthy(url) /\ ~Truthy(videoId)
    THEN Json(400, [error |-> UrlOrVideoIdRequired])
    ELSE IF Truthy(videoId)
    THEN DownloadLink(videoId.s, itag, format)
    ELSE DownloadLink(Interpolate(extractVideoId(url.s)), itag, format)

\* the handler rejecting a videoId that is not an 11-character identifier
DownloadResponseValidating(url, itag, format, videoId) ==
    IF ~Truthy(url) /\ ~Truthy(videoId)
    THEN Json(400, [error |-> UrlOrVideoIdRequired])
    ELSE IF Truthy(videoId)
    THEN IF WellFormedId(videoId.s)
         THEN DownloadLink(videoId.s, itag, format)
         ELSE Json(400, [error |-> InvalidYouTubeUrl])
    ELSE IF ~Truthy(extractVideoId(url.s))
    THEN Json(400, [error |-> InvalidYouTubeUrl])
    ELSE DownloadLink(extractVideoId(url.s).s, itag, format)

\* the response of GET for the four query parameters
DownloadResponse(url, itag, format, videoId) ==
    IF ~Truthy(url) /\ ~Truthy(videoId)
    THEN Json(400, [error |-> UrlOrVideoIdRequired])
    ELSE IF Truthy(videoId)
    THEN DownloadLink(videoId.s, itag, format)
    ELSE IF ~Truthy(extractVideoId(url.s))
    THEN Json(400, [error |-> InvalidYouTubeUrl])
    ELSE DownloadLink(extractVideoId(url.s).s, itag, format)

\* the arguments of the calls of extractVideoId made by GET
DownloadExtractCalls(url, videoId) ==
    IF ~Truthy(url) /\ ~Truthy(videoId) THEN <<>>
    ELSE IF Truthy(videoId) THEN <<>>
    ELSE <<url.s>>

\* GET, which has no await: the whole handler is one step
DownloadGET(url, itag, format, videoId) ==
    /\ dPc = "idle"
    /\ dReq' = [url |-> url, itag |-> itag, format |-> format,
                videoId |-> videoId]
    /\ dExtracted' = DownloadExtractCalls(url, videoId)
    /\ dResp' = DownloadResponse(url, itag, format, videoId)
    /\ dPc' = "done"
    /\ UNCHANGED <<exVars, iVars, cVars, pVars>>

\* the response is sent and nothing of the request is kept
DownloadDone ==
    /\ dPc = "done"
    /\ dPc' = "idle"
    /\ dReq' = Undefined
    /\ dExtracted' = <<>>
    /\ dResp' = Undefined
    /\ UNCHANGED <<exVars, iVars, cVars, pVars>>

NextDownload ==
    \/ \E url \in DownloadUrls, itag \in DownloadItags,
          format \in DownloadFormats, videoId \in DownloadVideoIds :
            DownloadGET(url, itag, format, videoId)
    \/ DownloadDone

SpecDownload == Init /\ [][NextDownload]_vars

\* a parameter is supplied when it is present and not empty
Supplied(v) == v # Null /\ v # Str(<<>>)

IsRedirect(resp) == resp.status \in 300..399

\* C9: /download answers 400 exactly when neither url nor videoId is
\* supplied, or videoId is absent and extractVideoId(url) is null; every
\* other request gets a redirect (or 500)
C9_BadRequestExactly ==
    dPc = "done" =>
        /\ dResp.status = 400 <=>
              \/ ~Supplied(dReq.url) /\ ~Supplied(dReq.videoId)
              \/ /\ ~Supplied(dReq.videoId)
                 /\ Supplied(dReq.url)
                 /\ extractVideoId(dReq.url.s) = Null
        /\ dResp.status # 400 => (IsRedirect(dResp) \/ dResp.status = 500)

C9_Witness ==
    /\ dPc = "done"
    /\ dReq.videoId = Null
    /\ dReq.url = Str(NotAUrl)
    /\ dResp.status = 400

\* C10: with both url and videoId supplied the redirect target is built
\* from videoId, and url is neither parsed nor able to change the response
C10_VideoIdTakesPrecedence ==
    (dPc = "done" /\ Supplied(dReq.url) /\ Supplied(dReq.videoId)) =>
        /\ IsRedirect(dResp)
        /\ dResp.location \in
              {MirrorMp3 \o dReq.videoId.s,
               MirrorVideo \o dReq.videoId.s,
               MirrorVideo \o dReq.videoId.s \o Mp4Segment
                   \o Interpolate(dReq.itag)}
        /\ dResp = DownloadResponse(Null, dReq.itag, dReq.format, dReq.videoId)
        /\ dExtracted = <<>>

C10_Witness ==
    /\ dPc = "done"
    /\ dReq.url = Str(NotAUrl)
    /\ dReq.videoId = Str(IdRick)
    /\ IsRedirect(dResp)

\* sub occurs in s as a run of consecutive characters
Contains(s, sub) ==
    \E k \in 0..(Len(s) - Len(sub)) :
        \A j \in 1..Len(sub) : s[k + j] = sub[j]

\* the identifier a redirecting request resolves to: videoId when supplied,
\* otherwise the one extracted from url
FinalVideoId(req) ==
    IF Supplied(req.videoId) THEN req.videoId.s
    ELSE extractVideoId(req.url.s).s

\* C11: the redirect target of /download is determined by (identifier,
\* itag, format): for format "mp3" the mp3 path followed by the identifier,
\* whatever itag is; for any other format with an itag, the video path with
\* the identifier and the itag verbatim; for any other format without an
\* itag, the video path followed by the identifier alone
C11_TargetByIdItagFormat ==
    (dPc = "done" /\ IsRedirect(dResp)) =>
        LET id == FinalVideoId(dReq)
            target == dResp.location
        IN  /\ Contains(target, id)
            /\ dReq.format = Str(Mp3) => target = MirrorMp3 \o id
            /\ (dReq.format # Str(Mp3) /\ Supplied(dReq.itag)) =>
                  /\ target = MirrorVideo \o id \o Mp4Segment \o dReq.itag.s
                  /\ Contains(target, dReq.itag.s)
            /\ (dReq.format # Str(Mp3) /\ ~Supplied(dReq.itag)) =>
                  target = MirrorVideo \o id

C11_Witness ==
    /\ dPc = "done"
    /\ dReq.format = Str(Mp3)
    /\ Supplied(dReq.itag)
    /\ dReq.videoId = Null
    /\ IsRedirect(dResp)
    /\ dResp.location = MirrorMp3 \o IdRick

\* C20: a non-empty videoId of any shape is never validated: the request
\* is answered by a redirect to the mirror link templated with that
\* videoId, extractVideoId is not called, and neither a malformed videoId
\* nor any itag gives 400
C20_VideoIdNotValidated ==
    (dPc = "done" /\ Supplied(dReq.videoId)) =>
        /\ dResp.status # 400
        /\ IsRedirect(dResp)
        /\ dResp.location = DownloadLink(dReq.videoId.s, dReq.itag,
                                         dReq.format).location
        /\ Contains(dResp.location, dReq.videoId.s)
        /\ dExtracted = <<>>

C20_Witness ==
    /\ dPc = "done"
    /\ dReq.videoId = Str(NotAUrl)
    /\ ~WellFormedId(dReq.videoId.s)
    /\ dReq.url = Null
    /\ IsRedirect(dResp)
    /\ dResp.location = MirrorVideo \o NotAUrl

(***************************************************************************)
(* Concurrent requests: every invocation of a handler has its own locals,  *)
(* and the modules declare no variable outside the functions               *)
(***************************************************************************)
\* the url parameters, provider payloads and /download parameters explored
\* with several requests in flight
ConcurrentUrls ==
    {Str(NotAUrl),
     Str(Https \o Www \o LitYoutubeCom \o WatchPath \o IdRick),
     Str(Https \o LitYoutuBe \o IdOther)}
ConcurrentRapidApiPayloads ==
    {Null,
     Payload(FullMeta,
             Obj([items |-> Arr(<<Item(Num(135), Str(MimeVideoMp4),
                                       Str(Label480p), Num(1000000),
                                       Undefined, Str(Mp4),
                                       Str(CodecsAvcAac), Undefined)>>)]),
             Obj([items |-> Arr(<<Item(Num(140), Str(MimeAudioMp4),
                                       Undefined, Num(128000),
                                       Str(AudioQualityMedium), Str(M4a),
                                       Str(CodecsAac), Str(Zero))>>)]))}
ConcurrentOEmbedPayloads ==
    {Null,
     Obj([title |-> Str(SomeTitle), author_name |-> Str(SomeChannel),
          thumbnail_url |-> Str(SomeThumb)])}
ConcurrentDownloads ==
    [url : {Null}, itag : {Null},
     format : {Null, Str(Mp3)}, videoId : {Null, Str(IdRick)}]

\* GET /info of invocation r, from its first statement to the first await
\* or to the 400 response
SlotStarted(u) ==
    LET videoId == IF Truthy(u) THEN extractVideoId(u.s) ELSE Undefined
    IN  IF ~Truthy(u)
        THEN [IdleSlot EXCEPT !.pc = "done", !.url = u,
                              !.resp = Json(400, [error |-> UrlRequired])]
        ELSE IF ~Truthy(videoId)
        THEN [IdleSlot EXCEPT !.pc = "done", !.url = u,
                              !.videoId = videoId,
                              !.resp = Json(400, [error |-> CouldNotExtract])]
        ELSE [IdleSlot EXCEPT !.pc = "primary", !.url = u,
                              !.videoId = videoId,
                              !.calls = <<RapidApiCall(videoId)>>]

\* catch (rapidApiError): the invocation awaits fetchOEmbedInfo
SlotFallsBack(slot, outcome) ==
    [slot EXCEPT !.primary = outcome,
                 !.calls = Append(slot.calls, OEmbedCall(slot.videoId)),
                 !.pc = "fallback"]

\* the invocation answers and ends
SlotAnswers(slot, resp) == [slot EXCEPT !.resp = resp, !.pc = "done"]

\* a handler that keeps the 200 responses in a module-level map keyed by
\* the identifier and answers from it without calling the provider
ConcurrentInfoStartCached(r, u) ==
    /\ cInfo[r].pc = "idle"
    /\ LET hits == {q \in InfoSlots :
                      /\ cInfo[q].pc = "done"
                      /\ cInfo[q].resp.status = 200
                      /\ Truthy(u)
                      /\ cInfo[q].videoId = extractVideoId(u.s)}
       IN  IF hits # {}
           THEN /\ \E q \in hits :
                     cInfo' = [cInfo EXCEPT ![r] =
                        [IdleSlot EXCEPT !.pc = "done", !.url = u,
                                         !.videoId = cInfo[q].videoId,
                                         !.resp = cInfo[q].resp]]
                /\ UNCHANGED cOutbound
           ELSE /\ cInfo' = [cInfo EXCEPT ![r] = SlotStarted(u)]
                /\ cOutbound' =
                      [cOutbound EXCEPT !.rapidapi =
                          @ + Len(cInfo'[r].calls)]
    /\ UNCHANGED <<cDown, exVars, iVars, dVars, pVars>>

\* a request for /info arrives at invocation r
ConcurrentInfoStart(r, u) ==
    /\ cInfo[r].pc = "idle"
    /\ cInfo' = [cInfo EXCEPT ![r] = SlotStarted(u)]
    /\ cOutbound' =
          [cOutbound EXCEPT !.rapidapi = @ + Len(cInfo'[r].calls)]
    /\ UNCHANGED <<cDown, exVars, iVars, dVars, pVars>>

\* the Rapid API call of invocation r fails
ConcurrentPrimaryThrows(r) ==
    /\ cInfo[r].pc = "primary"
    /\ cInfo' = [cInfo EXCEPT ![r] = SlotFallsBack(cInfo[r], Threw)]
    /\ cOutbound' = [cOutbound EXCEPT !.oembed = @ + 1]
    /\ UNCHANGED <<cDown, exVars, iVars, dVars, pVars>>

\* the Rapid API call of invocation r returns data
ConcurrentPrimaryReturns(r, data) ==
    /\ cInfo[r].pc = "primary"
    /\ IF NormalizeThrows(data)
       THEN /\ cInfo' = [cInfo EXCEPT ![r] =
                            SlotFallsBack(cInfo[r], Returned(data))]
            /\ cOutbound' = [cOutbound EXCEPT !.oembed = @ + 1]
       ELSE /\ \E sorted \in SortOutcomes(PushedFormats(data)) :
                 cInfo' = [cInfo EXCEPT ![r] =
                    SlotAnswers([cInfo[r] EXCEPT !.primary = Returned(data)],
                                Json(200, PrimaryBody(cInfo[r].videoId,
                                                      data, sorted)))]
            /\ UNCHANGED cOutbound
    /\ UNCHANGED <<cDown, exVars, iVars, dVars, pVars>>

\* the oEmbed call of invocation r fails
ConcurrentFallbackThrows(r) ==
    /\ cInfo[r].pc = "fallback"
    /\ cInfo' = [cInfo EXCEPT ![r] =
                    SlotAnswers([cInfo[r] EXCEPT !.fallback = Threw],
                                Json(500, [error |-> AllMethodsFailed]))]
    /\ UNCHANGED <<cDown, cOutbound, exVars, iVars, dVars, pVars>>

\* the oEmbed call of invocation r returns data
ConcurrentFallbackReturns(r, data) ==
    /\ cInfo[r].pc = "fallback"
    /\ cInfo' = [cInfo EXCEPT ![r] =
          SlotAnswers([cInfo[r] EXCEPT !.fallback = Returned(data)],
                      IF data = Null
                      THEN Json(500, [error |-> AllMethodsFailed])
                      ELSE Json(200, FallbackBody(cInfo[r].videoId, data)))]
    /\ UNCHANGED <<cDown, cOutbound, exVars, iVars, dVars, pVars>>

\* a request for /download is handled, in one step, while the /info
\* invocations are wherever they are
ConcurrentDownloadGET(req) ==
    /\ cDown' = [req |-> req,
                 resp |-> DownloadResponse(req.url, req.itag, req.format,
                                           req.videoId)]
    /\ UNCHANGED <<cInfo, cOutbound, exVars, iVars, dVars, pVars>>

NextConcurrent ==
    \/ \E r \in InfoSlots, u \in ConcurrentUrls : ConcurrentInfoStart(r, u)
    \/ \E r \in InfoSlots : ConcurrentPrimaryThrows(r)
    \/ \E r \in InfoSlots, data \in ConcurrentRapidApiPayloads :
          ConcurrentPrimaryReturns(r, data)
    \/ \E r \in InfoSlots : ConcurrentFallbackThrows(r)
    \/ \E r \in InfoSlots, data \in ConcurrentOEmbedPayloads :
          ConcurrentFallbackReturns(r, data)
    \/ \E req \in ConcurrentDownloads : ConcurrentDownloadGET(req)

SpecConcurrent == Init /\ [][NextConcurrent]_vars

\* extractVideoId tabulated on the url parameters of the requests
OwnId == [u \in ConcurrentUrls |-> extractVideoId(u.s)]

\* the responses GET /info can give to the url u when its own Rapid API
\* call and its own oEmbed call complete as primary and fallback say
OwnResponses(u, primary, fallback) ==
    IF ~Truthy(u) THEN {Json(400, [error |-> UrlRequired])}
    ELSE IF OwnId[u] = Null
    THEN {Json(400, [error |-> CouldNotExtract])}
    ELSE IF primary.kind = "returned" /\ IsVideoDetails(primary.data)
    THEN {Json(200, PrimaryBody(OwnId[u], primary.data, sorted)) :
            sorted \in SortOutcomes(PushedFormats(primary.data))}
    ELSE IF fallback.kind = "returned" /\ fallback.data # Null
    THEN {Json(200, FallbackBody(OwnId[u], fallback.data))}
    ELSE {Json(500, [error |-> AllMethodsFailed])}

\* the invocations that reached the Rapid API call
CalledPrimary ==
    {r \in InfoSlots : /\ cInfo[r].pc # "idle"
                       /\ Truthy(cInfo[r].url)
                       /\ OwnId[cInfo[r].url] # Null}

\* C18: however concurrent /info and /download requests interleave, the
\* response of each is one its own parameters and the outcomes of its own
\* provider calls give; nothing is answered from another request, and N
\* requests that carry an identifier make N Rapid API calls
C18_RequestsIndependent ==
    /\ \A r \in InfoSlots :
          /\ cInfo[r].pc = "done" =>
                /\ cInfo[r].resp \in OwnResponses(cInfo[r].url,
                                                  cInfo[r].primary,
                                                  cInfo[r].fallback)
                /\ cInfo[r].resp.status = 200 =>
                      cInfo[r].primary # NotCalled
          /\ \A k \in 1..Len(cInfo[r].calls) :
                cInfo[r].calls[k] \in
                    {RapidApiCall(OwnId[cInfo[r].url]),
                     OEmbedCall(OwnId[cInfo[r].url])}
    /\ cOutbound.rapidapi = Cardinality(CalledPrimary)
    /\ cOutbound.oembed =
          Cardinality({r \in InfoSlots : Len(cInfo[r].calls) = 2})
    /\ cDown.req # Undefined =>
          cDown.resp = DownloadResponse(cDown.req.url, cDown.req.itag,
                                        cDown.req.format, cDown.req.videoId)

C18_Witness ==
    /\ \E r, q \in InfoSlots :
          /\ r # q
          /\ cInfo[r].pc = "done" /\ cInfo[q].pc = "done"
          /\ cInfo[r].videoId = cInfo[q].videoId
          /\ cInfo[r].resp.status = 200
          /\ cInfo[q].resp.status = 200
          /\ cInfo[r].primary.kind = "returned"
          /\ cInfo[q].primary = Threw
          /\ cInfo[r].resp # cInfo[q].resp
    /\ cOutbound.rapidapi = 2
    /\ cDown.req # Undefined
    /\ IsRedirect(cDown.resp)

(***************************************************************************)
(* DownloadManager: the downloads state, its three effects, the buttons.   *)
(* A text in browser storage is known by whether JSON.parse accepts it,    *)
(* the value it denotes, and whether it is spelled as JSON.stringify       *)
(* spells that value.                                                       *)
(***************************************************************************)
EmptyText == [t |-> "text", json |-> FALSE, empty |-> TRUE]
InvalidText == [t |-> "text", json |-> FALSE, empty |-> FALSE]
JsonText(value, canonical) ==
    [t |-> "text", json |-> TRUE, empty |-> FALSE, value |-> value,
     canonical |-> canonical]

\* JSON.stringify(downloads) and JSON.parse(savedDownloads); parse is used
\* on texts that are JSON only, the others make it throw
Stringify(downloads) == JsonText(downloads, TRUE)
Parse(text) == text.value

\* if (savedDownloads): getItem gave a string that is not empty
TruthyItem(item) == item # Null /\ ~item.empty

ProgressStep == 5
ProgressFull == 100

DownloadItem(id, status, progress) ==
    [id |-> id, status |-> status, progress |-> progress]

\* the lists found in storage when the component mounts
SavedLists ==
    {<<>>,
     <<DownloadItem("a", "downloading", 90)>>,
     <<DownloadItem("a", "downloading", 97),
       DownloadItem("b", "paused", 95)>>,
     <<DownloadItem("a", "completed", 100),
       DownloadItem("b", "error", 95)>>,
     <<DownloadItem("a", "paused", 0),
       DownloadItem("b", "completed", 100)>>}
InitialStorages ==
    {Null, EmptyText, InvalidText,
     JsonText(<<DownloadItem("a", "downloading", 90)>>, FALSE)}
    \cup {Stringify(list) : list \in SavedLists}
ItemIds == {"a", "b"}

\* most state updates waiting for the next render
MaxQueue == 2

\* the updater of the interval, for one item
TickItem(download) ==
    IF download.status = "downloading" /\ download.progress < ProgressFull
    THEN LET newProgress ==
                 Min({download.progress + ProgressStep, ProgressFull})
         IN  [download EXCEPT
                 !.progress = newProgress,
                 !.status = IF newProgress = ProgressFull
                            THEN "completed" ELSE "downloading"]
    ELSE download

\* the updater of toggleDownloadStatus(id), for one item
ToggleItem(download, id) ==
    IF download.id = id
    THEN [download EXCEPT !.status = IF download.status = "downloading"
                                     THEN "paused" ELSE "downloading"]
    ELSE download

\* one queued state update applied to prevDownloads
ApplyUpdate(prevDownloads, update) ==
    CASE update.kind = "set" -> update.value
      [] update.kind = "tick" ->
            [i \in 1..Len(prevDownloads) |-> TickItem(prevDownloads[i])]
      [] update.kind = "toggle" ->
            [i \in 1..Len(prevDownloads) |->
                ToggleItem(prevDownloads[i], update.id)]
      [] update.kind = "remove" ->
            SelectSeq(prevDownloads, LAMBDA download : download.id # update.id)

\* the queue of updates processed by a render, first to last
RECURSIVE ApplyAll(_, _)
ApplyAll(prevDownloads, queue) ==
    IF queue = <<>> THEN prevDownloads
    ELSE ApplyAll(ApplyUpdate(prevDownloads, Head(queue)), Tail(queue))

SetUpdate(value) == [kind |-> "set", value |-> value, id |-> ""]
TickUpdate == [kind |-> "tick", value |-> <<>>, id |-> ""]
ToggleUpdate(id) == [kind |-> "toggle", value |-> <<>>, id |-> id]
RemoveUpdate(id) == [kind |-> "remove", value |-> <<>>, id |-> id]

\* the load effect run on the component state d
LoadEffect(d) ==
    IF TruthyItem(d.storage)
    THEN IF d.storage.json
         THEN [d EXCEPT !.queue = Append(d.queue,
                                         SetUpdate(Parse(d.storage)))]
         ELSE [d EXCEPT !.storage = Null]
    ELSE d

\* a save effect that skips the empty list
SaveEffectNonEmpty(d) ==
    IF d.downloads = <<>> THEN d
    ELSE [d EXCEPT !.storage = Stringify(d.downloads)]

\* the save effect run on the component state d: downloads is the value of
\* the render the effect belongs to
SaveEffect(d) == [d EXCEPT !.storage = Stringify(d.downloads)]

\* the effects of the first render, in the order of their declaration
MountEffects(d) == SaveEffect(LoadEffect(d))

InitManager ==
    /\ ExtractIdle /\ InfoIdle /\ DownloadIdle /\ ConcurrentIdle
    /\ vf = VideoFormIdle /\ hm = HomeIdle /\ vi = VideoInfoIdle
    /\ dm \in {DownloadManagerUnmounted(item) : item \in InitialStorages}

ManagerRest == <<exVars, iVars, dVars, cVars, vf, hm, vi>>

\* the first render shows []; its effects run once, or twice where the
\* development build of React re-runs the effects of a mounted component
\* (strict); the updates they queue wait for the next render
ManagerMount(strict) ==
    /\ dm.phase = "unmounted"
    /\ LET once == MountEffects(dm)
           ran == IF strict THEN MountEffects(once) ELSE once
       IN  dm' = [ran EXCEPT !.phase = "mounted", !.strict = strict]
    /\ UNCHANGED ManagerRest

\* the interval fires: setDownloads(prevDownloads => ...)
ManagerTick ==
    /\ dm.phase = "mounted"
    /\ Len(dm.queue) < MaxQueue
    /\ dm' = [dm EXCEPT !.queue = Append(@, TickUpdate)]
    /\ UNCHANGED ManagerRest

\* the items on screen are those of the last render
Rendered(id) ==
    \E i \in 1..Len(dm.downloads) : dm.downloads[i].id = id
RenderedItem(id) ==
    dm.downloads[CHOOSE i \in 1..Len(dm.downloads) : dm.downloads[i].id = id]

\* the pause / resume button, rendered for an item that is neither
\* 'completed' nor 'error'
toggleDownloadStatus(id) ==
    /\ dm.phase = "mounted"
    /\ Len(dm.queue) < MaxQueue
    /\ Rendered(id)
    /\ RenderedItem(id).status \notin {"completed", "error"}
    /\ dm' = [dm EXCEPT !.queue = Append(@, ToggleUpdate(id)),
                        !.user = TRUE]
    /\ UNCHANGED ManagerRest

\* the trash button of an item
removeDownload(id) ==
    /\ dm.phase = "mounted"
    /\ Len(dm.queue) < MaxQueue
    /\ Rendered(id)
    /\ dm' = [dm EXCEPT !.queue = Append(@, RemoveUpdate(id)),
                        !.user = TRUE]
    /\ UNCHANGED ManagerRest

\* the Clear All button: setDownloads([])
ClearAll ==
    /\ dm.phase = "mounted"
    /\ Len(dm.queue) < MaxQueue
    /\ dm' = [dm EXCEPT !.queue = Append(@, SetUpdate(<<>>)),
                        !.user = TRUE]
    /\ UNCHANGED ManagerRest

\* a render processes the queued updates in the order of their calls; the
\* effects of the previous render have run before it starts
ManagerRender ==
    /\ dm.phase = "mounted"
    /\ dm.queue # <<>>
    /\ ~dm.saveDue
    /\ dm' = [dm EXCEPT !.downloads = ApplyAll(dm.downloads, dm.queue),
                        !.queue = <<>>,
                        !.saveDue = TRUE]
    /\ UNCHANGED ManagerRest

\* the save effect of a render whose downloads changed
ManagerSave ==
    /\ dm.phase = "mounted"
    /\ dm.saveDue
    /\ dm' = [SaveEffect(dm) EXCEPT !.saveDue = FALSE]
    /\ UNCHANGED ManagerRest

NextManager ==
    \/ \E strict \in BOOLEAN : ManagerMount(strict)
    \/ ManagerTick
    \/ \E id \in ItemIds : toggleDownloadStatus(id)
    \/ \E id \in ItemIds : removeDownload(id)
    \/ ClearAll
    \/ ManagerRender
    \/ ManagerSave

SpecManager == InitManager /\ [][NextManager]_vars

\* C22: whenever the component is mounted and no save effect is pending, the
\* text stored under 'downloads' is the serialization of the downloads state
C22_StorageAgreesWithState ==
    (dm.phase = "mounted" /\ ~dm.saveDue)
        => dm.storage = Stringify(dm.downloads)

C22_Witness ==
    /\ dm.phase = "mounted" /\ ~dm.saveDue /\ dm.user
    /\ dm.queue = <<>>
    /\ dm.downloads # <<>>
    /\ dm.saved # Null /\ dm.saved.json /\ dm.downloads # Parse(dm.saved)
    /\ dm.storage = Stringify(dm.downloads)

\* the timer keeps firing and a scheduled render or effect is run
SpecManagerLive ==
    /\ InitManager /\ [][NextManager]_vars
    /\ SF_vars(ManagerTick)
    /\ WF_vars(ManagerRender)
    /\ WF_vars(ManagerSave)
    /\ WF_vars(\E strict \in BOOLEAN : ManagerMount(strict))

\* progress is within 0..100 and is 100 exactly for a completed item
ProgressInvariant(downloads) ==
    \A i \in 1..Len(downloads) :
        /\ downloads[i].progress \in 0..ProgressFull
        /\ downloads[i].progress = ProgressFull
               <=> downloads[i].status = "completed"

\* the list the n-th queued update will be applied to
Pending(n) == ApplyAll(dm.downloads, SubSeq(dm.queue, 1, n))

\* what a tick or a toggle may do to the list it is applied to
UpdateKeeps(prevDownloads, update) ==
    LET next == ApplyUpdate(prevDownloads, update)
    IN  update.kind \in {"tick", "toggle"} =>
          /\ Len(next) = Len(prevDownloads)
          /\ \A i \in 1..Len(next) :
               /\ next[i].id = prevDownloads[i].id
               /\ next[i].progress >= prevDownloads[i].progress
               /\ next[i].progress # prevDownloads[i].progress =>
                     /\ update.kind = "tick"
                     /\ prevDownloads[i].status = "downloading"
                     /\ next[i].progress =
                            Min({prevDownloads[i].progress + ProgressStep,
                                 ProgressFull})
               /\ (update.kind = "tick"
                   /\ prevDownloads[i].status = "paused")
                     => next[i] = prevDownloads[i]

\* C24: every tick and every button press keeps each item's progress
\* within 0..100 and non-decreasing, changes it only by a tick of a
\* 'downloading' item (+5 capped at 100), leaves paused items alone on a
\* tick, and keeps progress = 100 exactly for 'completed' items
C24_ProgressDiscipline ==
    dm.phase = "mounted" =>
        /\ \A n \in 0..Len(dm.queue) : ProgressInvariant(Pending(n))
        /\ \A n \in 0..(Len(dm.queue) - 1) :
               UpdateKeeps(Pending(n), dm.queue[n + 1])

ItemIs(id, status) == Rendered(id) /\ RenderedItem(id).status = status

\* C25: with the timer firing again and again, a 'downloading' item is
\* eventually 'completed' at 100 unless it is paused or removed, and a tick
\* applied to a 'completed' item leaves it as it is
C25_DownloadingCompletes ==
    /\ \A id \in ItemIds :
          ItemIs(id, "downloading") ~>
              \/ ItemIs(id, "completed")
                   /\ RenderedItem(id).progress = ProgressFull
              \/ ItemIs(id, "paused")
              \/ ~Rendered(id)
    /\ [](\A n \in 0..Len(dm.queue) : \A i \in 1..Len(Pending(n)) :
             Pending(n)[i].status = "completed"
                 => TickItem(Pending(n)[i]) = Pending(n)[i])

\* the list after k ticks
RECURSIVE Ticked(_, _)
Ticked(downloads, k) ==
    IF k = 0 THEN downloads
    ELSE Ticked([i \in 1..Len(downloads) |-> TickItem(downloads[i])], k - 1)

\* ticks after which no list changes any more
MaxTicks == ProgressFull \div ProgressStep

\* the mount-time effects have settled: their updates are rendered and the
\* save effect of that render has run
MountSettled ==
    /\ dm.phase = "mounted"
    /\ ~dm.saveDue
    /\ \A n \in 1..Len(dm.queue) : dm.queue[n].kind # "set"

\* C26: mounted from a list saved by the component and left alone by the
\* user, the settled component shows the saved list, up to ticks, and
\* storage holds that list again, effects run once or twice
C26_MountRoundTrip ==
    (/\ MountSettled /\ ~dm.user
     /\ dm.saved # Null /\ dm.saved.json /\ dm.saved.canonical)
        => /\ \E k \in 0..MaxTicks :
                 dm.downloads = Ticked(Parse(dm.saved), k)
           /\ dm.storage = Stringify(dm.downloads)

(***************************************************************************)
(* VideoInfo: a click on a format button opens a /api/download address     *)
(***************************************************************************)
\* encodeURIComponent keeps letters, digits and - _ . ! ~ * ' ( ) and
\* writes every other character as % and its code
UriUnreserved(c) == IdChar(c) \/ c \in {".", "!", "~", "*", "'", "(", ")"}
PercentCodes ==
    [c \in {" ", "%", "&", "+", "/", ":", "=", "?"} |->
        CASE c = " " -> <<"2", "0">>
          [] c = "%" -> <<"2", "5">>
          [] c = "&" -> <<"2", "6">>
          [] c = "+" -> <<"2", "B">>
          [] c = "/" -> <<"2", "F">>
          [] c = ":" -> <<"3", "A">>
          [] c = "=" -> <<"3", "D">>
          [] c = "?" -> <<"3", "F">>]
RECURSIVE encodeURIComponent(_)
encodeURIComponent(s) ==
    IF s = <<>> THEN <<>>
    ELSE (IF UriUnreserved(Head(s)) THEN <<Head(s)>>
          ELSE <<"%">> \o PercentCodes[Head(s)])
         \o encodeURIComponent(Tail(s))

\* the decoding searchParams applies to a name or a value of the query
RECURSIVE DecodeParam(_)
DecodeParam(s) ==
    IF s = <<>> THEN <<>>
    ELSE IF Head(s) = "+" THEN <<" ">> \o DecodeParam(Tail(s))
    ELSE IF /\ Head(s) = "%" /\ Len(s) >= 3
            /\ \E c \in DOMAIN PercentCodes :
                   PercentCodes[c] = SubSeq(s, 2, 3)
         THEN <<CHOOSE c \in DOMAIN PercentCodes :
                    PercentCodes[c] = SubSeq(s, 2, 3)>>
              \o DecodeParam(SubSeq(s, 4, Len(s)))
    ELSE <<Head(s)>> \o DecodeParam(Tail(s))

\* the first position of character c in s, 0 when there is none
IndexOf(s, c) ==
    IF \E i \in 1..Len(s) : s[i] = c
    THEN Min({i \in 1..Len(s) : s[i] = c}) ELSE 0

\* the query of an address: what follows the first ?
QueryOf(address) ==
    IF IndexOf(address, "?") = 0 THEN <<>>
    ELSE SubSeq(address, IndexOf(address, "?") + 1, Len(address))

\* searchParams.get(name) on a query: the value of the first name=value
\* pair with that name, null when there is none
RECURSIVE searchParamsGet(_, _)
searchParamsGet(query, name) ==
    IF query = <<>> THEN Null
    ELSE LET amp == IndexOf(query, "&")
             pair == IF amp = 0 THEN query ELSE SubSeq(query, 1, amp - 1)
             rest == IF amp = 0 THEN <<>>
                     ELSE SubSeq(query, amp + 1, Len(query))
             eq == IndexOf(pair, "=")
             key == IF eq = 0 THEN pair ELSE SubSeq(pair, 1, eq - 1)
             value == IF eq = 0 THEN <<>>
                      ELSE SubSeq(pair, eq + 1, Len(pair))
         IN  IF pair # <<>> /\ DecodeParam(key) = name
             THEN Str(DecodeParam(value))
             ELSE searchParamsGet(rest, name)

ApiDownload ==
    <<"/", "a", "p", "i", "/", "d", "o", "w", "n", "l", "o", "a", "d">>
ParamUrl == <<"u", "r", "l">>
ParamItag == <<"i", "t", "a", "g">>
ParamFormat == <<"f", "o", "r", "m", "a", "t">>
ParamVideoId == <<"v", "i", "d", "e", "o", "I", "d">>

\* `/api/download?url=${encodeURIComponent(videoInfo.title)}&itag=${itag}
\* &format=${format}`
downloadUrl(videoInfo, itag, format) ==
    ApiDownload \o <<"?">> \o ParamUrl \o <<"=">>
        \o encodeURIComponent(videoInfo.title)
        \o <<"&">> \o ParamItag \o <<"=">> \o itag
        \o <<"&">> \o ParamFormat \o <<"=">> \o format

\* the videos shown: the identifier the information was fetched for is not
\* a field of VideoDetails; direct is the url of the format when directUrls
\* is set and the format has one
TitleNever == <<"N", "e", "v", "e", "r", " ", "G", "o", "n", "n", "a">>
TitleHello == <<"H", "e", "l", "l", "o", "_", "W", "o", "r", "l", "d">>
TitleQuestion == <<"W", "h", "y", "?", " ", "A", "&", "B">>
TitleLink ==
    <<"y", "o", "u", "t", "u", ".", "b", "e", "/">> \o IdOther
DirectUrl ==
    <<"h", "t", "t", "p", "s", ":", "/", "/", "c", "d", "n", "/", "v">>
DisplayedVideos ==
    {[videoId |-> IdRick, title |-> title, direct |-> direct] :
        title \in {TitleNever, TitleHello, TitleQuestion, TitleLink,
                   IdRick, <<>>},
        direct \in {Null, Str(DirectUrl)}}
ClickedItags == {Itag18, <<"2", "2">>, Itag140}
ClickedFormats == {Mp3, Mp4}

\* the parent renders VideoInfo with the information it fetched
VideoInfoRender(videoInfo) ==
    /\ vi' = [VideoInfoIdle EXCEPT !.videoInfo = videoInfo]
    /\ UNCHANGED <<exVars, iVars, dVars, cVars, vf, hm, dm>>

\* handleDownload(itag, format) of VideoInfo
VideoInfoHandleDownload(itag, format) ==
    /\ vi.videoInfo # Null
    /\ vi' = [vi EXCEPT
                !.itag = itag, !.format = format, !.resp = Undefined,
                !.opened =
                    IF vi.videoInfo.direct # Null THEN vi.videoInfo.direct
                    ELSE Str(downloadUrl(vi.videoInfo, itag, format))]
    /\ UNCHANGED <<exVars, iVars, dVars, cVars, vf, hm, dm>>

\* the new tab requests the address; /api/download answers
VideoInfoTabLoads ==
    /\ vi.opened # Null /\ vi.resp = Undefined
    /\ vi.videoInfo.direct = Null
    /\ LET query == QueryOf(vi.opened.s)
       IN  vi' = [vi EXCEPT !.resp =
                    DownloadResponse(searchParamsGet(query, ParamUrl),
                                     searchParamsGet(query, ParamItag),
                                     searchParamsGet(query, ParamFormat),
                                     searchParamsGet(query, ParamVideoId))]
    /\ UNCHANGED <<exVars, iVars, dVars, cVars, vf, hm, dm>>

\* C23: the address opened by a click on a format button makes /download
\* redirect to the mirror link of the displayed video and the clicked itag
C23_ClickRequestsDisplayedVideo ==
    vi.resp # Undefined
        => vi.resp = DownloadLink(vi.videoInfo.videoId, Str(vi.itag),
                                  Str(vi.format))

(***************************************************************************)
(* The two forms: handleSubmit of VideoForm and of the Home page, and      *)
(* handleDownload of the Home page                                         *)
(***************************************************************************)
\* a response body response.json() rejects
Unparseable == [t |-> "unparseable"]
\* a string of a response body, known by its text
Message(m) == [t |-> "message", m |-> m]
\* object.name; the object is not null
Member(object, name) ==
    IF name \in DOMAIN object.f THEN object.f[name] ELSE Undefined

RestrictedVideo == "This video is restricted"
\* message.includes(needle) for the messages and needles used here
Includes(message, needle) ==
    <<message.m, needle>> \in
        {<<InvalidYouTubeUrl, "Invalid YouTube URL">>,
         <<RestrictedVideo, "restricted">>}

PleaseEnterValid ==
    "Please enter a valid YouTube URL or video ID (e.g., https://youtube.com/watch?v=VIDEO_ID or just VIDEO_ID)"
RestrictedOrUnavailable ==
    "This video is restricted or unavailable. Please try another video."
PleaseTryAgain == "Failed to fetch video information. Please try again."

\* how the awaited fetch of a handler completes: it rejects, or resolves
\* with response.ok and a body
Rejected == [kind |-> "rejected", ok |-> FALSE, body |-> Null]
Resolved(ok, body) == [kind |-> "resolved", ok |-> ok, body |-> body]

SomeVideoInfo ==
    Obj([videoId |-> Str(IdRick), title |-> Str(TitleNever),
         limitedInfo |-> Null])
InfoBodies ==
    {Unparseable, Null, Obj([message |-> Message(FailedToFetch)]),
     Obj([error |-> Message(CouldNotExtract)]),
     Obj([error |-> Message(InvalidYouTubeUrl)]),
     Obj([error |-> Message(RestrictedVideo)]),
     SomeVideoInfo}
InfoOutcomes ==
    {Rejected} \cup {Resolved(ok, body) : ok \in BOOLEAN, body \in InfoBodies}
SubmittedUrls == {<<" ">>, NotAUrl, IdRick}

\* most entries of a download history
MaxHistory == 2

\* String.prototype.trim for the inputs used here: spaces at both ends
RECURSIVE trim(_)
trim(s) ==
    IF s = <<>> THEN s
    ELSE IF Head(s) \in WhiteSpace THEN trim(Tail(s))
    ELSE IF s[Len(s)] \in WhiteSpace THEN trim(SubSeq(s, 1, Len(s) - 1))
    ELSE s

cleanYouTubeUrl(url) ==
    IF WellFormedId(url)
    THEN Https \o Www \o LitYoutubeCom \o WatchPath \o url
    ELSE url

\* VideoForm and Home are rendered by different pages: a tab shows one of
\* them, and the other page is then in its initial state
\* handleSubmit of VideoForm up to its await; Formik has set isSubmitting
\* and keeps the button disabled while it is set
VideoFormSubmit(url) ==
    /\ hm = HomeIdle
    /\ vf.pc = "idle"
    /\ Len(vf.downloadHistory) < MaxHistory
    /\ vf' = [vf EXCEPT !.pc = "fetching", !.isSubmitting = TRUE,
                        !.error = "", !.videoInfo = Null, !.loading = TRUE,
                        !.cleanedUrl = cleanYouTubeUrl(trim(url)),
                        !.before = vf.downloadHistory,
                        !.outcome = "none"]
    /\ UNCHANGED <<exVars, iVars, dVars, cVars, hm, vi, dm>>

\* the statements of the try block of VideoForm's handleSubmit after the
\* await throw: response.json() rejects, or a property of null or of
\* undefined is read
VideoFormThrows(result) ==
    \/ result.kind = "rejected"
    \/ result.body = Unparseable
    \/ result.body = Null
    \/ ~result.ok /\ Member(result.body, "error") = Undefined

\* the error shown for an error response
VideoFormError(errorData) ==
    IF Includes(Member(errorData, "error"), "Invalid YouTube URL")
    THEN PleaseEnterValid
    ELSE IF Includes(Member(errorData, "error"), "restricted")
    THEN RestrictedOrUnavailable
    ELSE Member(errorData, "error").m

\* a submission that leaves isSubmitting set on the failure paths
VideoFormSettlesStillSubmitting(result) ==
    /\ vf.pc = "fetching"
    /\ vf' =
         IF VideoFormThrows(result)
         THEN [vf EXCEPT !.pc = "idle", !.error = PleaseTryAgain,
                         !.loading = FALSE,
                         !.outcome = "failed"]
         ELSE IF ~result.ok
         THEN [vf EXCEPT !.pc = "idle",
                         !.error = VideoFormError(result.body),
                         !.loading = FALSE,
                         !.outcome = "failed"]
         ELSE [vf EXCEPT !.pc = "idle", !.videoInfo = result.body,
                         !.downloadHistory =
                             <<[id |-> Len(vf.downloadHistory) + 1,
                                url |-> vf.cleanedUrl,
                                status |-> "ready", progress |-> 0]>>
                             \o vf.downloadHistory,
                         !.isSubmitting = FALSE, !.loading = FALSE,
                         !.outcome = "succeeded"]
    /\ UNCHANGED <<exVars, iVars, dVars, cVars, hm, vi, dm>>

\* handleSubmit of VideoForm from its await to its end, finally included
VideoFormSettles(result) ==
    /\ vf.pc = "fetching"
    /\ vf' =
         IF VideoFormThrows(result)
         THEN [vf EXCEPT !.pc = "idle", !.error = PleaseTryAgain,
                         !.isSubmitting = FALSE, !.loading = FALSE,
                         !.outcome = "failed"]
         ELSE IF ~result.ok
         THEN [vf EXCEPT !.pc = "idle",
                         !.error = VideoFormError(result.body),
                         !.isSubmitting = FALSE, !.loading = FALSE,
                         !.outcome = "failed"]
         ELSE [vf EXCEPT !.pc = "idle", !.videoInfo = result.body,
                         !.downloadHistory =
                             <<[id |-> Len(vf.downloadHistory) + 1,
                                url |-> vf.cleanedUrl,
                                status |-> "ready", progress |-> 0]>>
                             \o vf.downloadHistory,
                         !.isSubmitting = FALSE, !.loading = FALSE,
                         !.outcome = "succeeded"]
    /\ UNCHANGED <<exVars, iVars, dVars, cVars, hm, vi, dm>>

\* the user types into the url field of the Home page
HomeTypes(url) ==
    /\ vf = VideoFormIdle
    /\ hm.pc = "idle"
    /\ hm.url # url
    /\ hm' = [hm EXCEPT !.url = url]
    /\ UNCHANGED <<exVars, iVars, dVars, cVars, vf, vi, dm>>

\* the identifiers of the entries of a history, first to last
Ids(downloadHistory) ==
    [i \in 1..Len(downloadHistory) |-> downloadHistory[i].id]

\* handleSubmit of the Home page up to its await, or to its return for an
\* empty url; the button is disabled while loading
HomeSubmit ==
    /\ vf = VideoFormIdle
    /\ hm.pc = "idle"
    /\ hm' = IF trim(hm.url) = <<>>
             THEN [hm EXCEPT !.videoInfo = Null, !.loading = FALSE,
                             !.before = Ids(hm.downloadHistory),
                             !.outcome = "rejected"]
             ELSE [hm EXCEPT !.pc = "fetching", !.loading = TRUE,
                             !.videoInfo = Null,
                             !.before = Ids(hm.downloadHistory),
                             !.outcome = "none"]
    /\ UNCHANGED <<exVars, iVars, dVars, cVars, vf, vi, dm>>

\* the try block of Home's handleSubmit throws after the await
HomeSubmitThrows(result) ==
    \/ result.kind = "rejected"
    \/ result.body = Unparseable
    \/ ~result.ok /\ result.body = Null

\* handleSubmit of the Home page from its await to its end
HomeSubmitSettles(result) ==
    /\ hm.pc = "fetching"
    /\ hm' =
         IF HomeSubmitThrows(result) \/ ~result.ok
         THEN [hm EXCEPT !.pc = "idle", !.loading = FALSE,
                         !.outcome = "failed"]
         ELSE [hm EXCEPT !.pc = "idle", !.loading = FALSE,
                         !.videoInfo = result.body,
                         !.outcome = "succeeded"]
    /\ UNCHANGED <<exVars, iVars, dVars, cVars, vf, vi, dm>>

\* bodies of the answers to Home's download request
SomeRedirectUrl == Str(MirrorVideo \o IdRick)
DownloadBodies ==
    {Unparseable, Null, Obj([error |-> Message(FailedToFetch)]),
     Obj([success |-> Bool(TRUE)]),
     Obj([success |-> Bool(TRUE), redirectUrl |-> SomeRedirectUrl]),
     Obj([success |-> Bool(FALSE), redirectUrl |-> SomeRedirectUrl])}
DownloadOutcomes ==
    {Rejected}
    \cup {Resolved(ok, body) : ok \in BOOLEAN, body \in DownloadBodies}

\* handleDownload(format.itag, 'mp4') and handleDownload(format.itag, 'mp3')
HomeButtons ==
    {[itag |-> Itag18, format |-> Mp4], [itag |-> Itag140, format |-> Mp3]}

\* the format buttons are rendered while videoInfo is set and loading is
\* not; handleDownload up to its await: the entry is put in front of the
\* history, its id made of the video, the itag and the time of the click
HomeHandleDownload(itag, format) ==
    /\ vf = VideoFormIdle
    /\ hm.pc = "idle"
    /\ Truthy(hm.videoInfo)
    /\ Len(hm.downloadHistory) < MaxHistory
    /\ LET timestamp == Len(hm.downloadHistory)
           id == <<Member(hm.videoInfo, "videoId"), itag, timestamp>>
       IN  hm' = [hm EXCEPT
                    !.downloadHistory =
                        <<[id |-> id, format |-> format,
                           status |-> "downloading"]>> \o @,
                    !.inFlight = @ \cup {id}]
    /\ UNCHANGED <<exVars, iVars, dVars, cVars, vf, vi, dm>>

\* setDownloadHistory(prev => prev.map(item => item.id === id ? {...item,
\* status} : item))
SetStatus(prev, id, status) ==
    [i \in 1..Len(prev) |->
        IF prev[i].id = id THEN [prev[i] EXCEPT !.status = status]
        ELSE prev[i]]

\* the try block of Home's handleDownload throws after the await
HomeDownloadThrows(result) ==
    \/ result.kind = "rejected"
    \/ result.body = Unparseable
    \/ result.body = Null

\* handleDownload of the Home page from its await to its end, for the
\* request of the entry id
HomeDownloadSettles(id, result) ==
    /\ id \in hm.inFlight
    /\ hm' = [hm EXCEPT
                !.inFlight = @ \ {id},
                !.downloadHistory =
                    IF HomeDownloadThrows(result) THEN @
                    ELSE IF ~result.ok THEN SetStatus(@, id, "failed")
                    ELSE IF /\ Truthy(Member(result.body, "success"))
                            /\ Truthy(Member(result.body, "redirectUrl"))
                    THEN SetStatus(@, id, "redirected")
                    ELSE SetStatus(@, id, "failed")]
    /\ UNCHANGED <<exVars, iVars, dVars, cVars, vf, vi, dm>>

NextClient ==
    \/ \E url \in SubmittedUrls : VideoFormSubmit(url)
    \/ \E result \in InfoOutcomes : VideoFormSettles(result)
    \/ \E url \in SubmittedUrls : HomeTypes(url)
    \/ HomeSubmit
    \/ \E result \in InfoOutcomes : HomeSubmitSettles(result)
    \/ \E button \in HomeButtons :
            HomeHandleDownload(button.itag, button.format)
    \/ \E id \in hm.inFlight, result \in DownloadOutcomes :
            HomeDownloadSettles(id, result)

SpecClient == Init /\ [][NextClient]_vars

NextVideoInfo ==
    \/ \E videoInfo \in DisplayedVideos : VideoInfoRender(videoInfo)
    \/ \E itag \in ClickedItags, format \in ClickedFormats :
            VideoInfoHandleDownload(itag, format)
    \/ VideoInfoTabLoads

SpecVideoInfo == Init /\ [][NextVideoInfo]_vars

\* C21: after a submission whose fetch of the information failed, loading
\* and submitting are off, videoInfo is null and the history has the entries
\* it had before the submission, in VideoForm and on the Home page
C21_FailedSubmitRestores ==
    /\ (vf.pc = "idle" /\ vf.outcome = "failed") =>
          /\ ~vf.loading /\ ~vf.isSubmitting
          /\ vf.videoInfo = Null
          /\ vf.downloadHistory = vf.before
    /\ (hm.pc = "idle" /\ hm.outcome = "failed") =>
          /\ ~hm.loading
          /\ hm.videoInfo = Null
          /\ Ids(hm.downloadHistory) = hm.before

C21_Witness ==
    /\ vf.pc = "idle" /\ vf.outcome = "failed"
    /\ Len(vf.downloadHistory) = 1 /\ vf.error = PleaseEnterValid

\* a history changes by a new 'downloading' entry in front, or by the
\* status of the entries of one id
HistoryStep ==
    hm'.downloadHistory # hm.downloadHistory =>
        \/ /\ Tail(hm'.downloadHistory) = hm.downloadHistory
           /\ Head(hm'.downloadHistory).status = "downloading"
        \/ /\ Ids(hm'.downloadHistory) = Ids(hm.downloadHistory)
           /\ \E id \in hm.inFlight :
                \A i \in 1..Len(hm.downloadHistory) :
                    hm.downloadHistory[i].id # id
                        => hm'.downloadHistory[i] = hm.downloadHistory[i]

\* C27: an entry added as 'downloading' is 'failed' or 'redirected' once its
\* request has settled, however it settled; a status update changes only
\* the entry of its id; new entries are put in front
C27_SettledEntryIsFinal ==
    /\ [](\A i \in 1..Len(hm.downloadHistory) :
            hm.downloadHistory[i].id \notin hm.inFlight
                => hm.downloadHistory[i].status \in {"failed", "redirected"})
    /\ [][HistoryStep]_vars

====
